---- MODULE Spec2Model ----
(***************************************************************************)
(* Connection & streaming resource manager of the LightCurve main process. *)
(* The IPC handlers of the Electron main process and the receive loop of   *)
(* each streaming consumer are modelled as actions; every `await` of the   *)
(* source on a native operation is a point where other tasks interleave.   *)
(***************************************************************************)
EXTENDS Integers, Sequences, FiniteSets, Bags, TLC

\* ---------------------------------------------------------------- bounds
\* number of cluster:connect calls (each call reads a later Date.now())
MaxClock == 3
\* number of ids consumerIdCounter hands out
MaxIds == 2
\* number of streaming consumers started where one consumer is studied
MaxStreamIds == 1
\* messages the broker hands to the consumers, in total
MaxMsgs == 2
\* number of messages:stopConsumer calls
MaxStopCalls == 2
\* startConsumer calls awaiting their subscribe at the same time
MaxPendingStarts == 1
\* cluster:disconnect calls awaiting client.close() at the same time
MaxDisconnects == 1
\* calls of PulsarMessageClient.close() in progress at the same time, where
\* cluster:disconnect calls meet each other and the before-quit handler
MaxClientCloses == 2

\* number of ids producerIdCounter hands out
MaxProducers == 1
\* temporary producers / readers made by messages:send, browse and peek
MaxTemps == 1
\* producer:close, consumer:close and messages:closeReader calls awaiting
\* their close() at the same time
MaxCloseOps == 2
\* close() calls the close handlers make on one wrapper
MaxCloseCalls == 2
\* calls made on the admin client
MaxAdminCalls == 2
\* producer / consumer / reader creates awaiting the client at the same time
MaxPendingCreates == 1

Clusters == {"c1", "c2", "c3"}
ClientIds == 1..MaxClock
Ids == 1..MaxIds
StreamIds == 1..MaxStreamIds
StopSlots == 1..MaxStopCalls
CloseSlots == 1..MaxClientCloses
DisconnectSlots == 1..MaxDisconnects
ProducerIds == 1..MaxProducers
TempIds == 1..MaxTemps
CloseOpSlots == 1..MaxCloseOps
\* the maps of the handlers that hand out ids: producers, consumers, readers
Kinds == {"producer", "consumer", "reader"}
\* the PulsarProducer wrappers: those registered under an id and the
\* temporary ones of messages:send
ProducerWrappers == ({"id"} \X ProducerIds) \cup ({"temp"} \X TempIds)
\* the PulsarReader wrappers: those registered under an id (ids come from
\* consumerIdCounter) and the temporary ones of messages:browse and peek
ReaderWrappers == ({"id"} \X Ids) \cup ({"temp"} \X TempIds)

VARIABLES
    now,                 \* Date.now(), advanced by every cluster:connect call
    connectedClusters,   \* Map clusterId -> ClusterConnection
    clientNative,        \* PulsarMessageClient.client !== null, per client
    clientConsumers,     \* PulsarMessageClient.consumers, per client
    clientProducers,     \* PulsarMessageClient.producers, per client
    clientReaders,       \* PulsarMessageClient.readers, per client
    clientClose,         \* the cluster:disconnect calls awaiting client.close()
    consumerIdCounter,   \* let consumerIdCounter
    sc,                  \* the StreamingConsumer objects, by id number
    streamingConsumers,  \* keys of the streamingConsumers Map
    native,              \* native consumer behind each wrapper
    startCalls,          \* startConsumer calls awaiting client.subscribe
    stopCalls,           \* the stopConsumer calls made so far
    sink,                \* messages:received events sent, per consumerId
    pausedDeliveries,    \* events sent for a consumer while paused is set
    ackFailed,           \* an acknowledge of the consumer's loop has rejected
    opResp,              \* result of the last resource handler to return
    producerIdCounter,   \* let producerIdCounter
    producers,           \* keys of the producers Map
    consumers,           \* keys of the consumers Map
    readers,             \* keys of the readers Map
    producerNative,      \* native producer behind each PulsarProducer
    readerNative,        \* native reader behind each PulsarReader
    createCalls,         \* creates awaiting the client, per kind and client
    closeOps,            \* the calls pending on a producer / consumer / reader
    temps,               \* the messages:send / browse / peek calls so far
    adminCalls,          \* calls made on the admin clients, and those pending
    issued,              \* bag of the ids the create handlers have returned
    mainWindow,          \* mainWindow !== null
    consumerStatus,      \* TestMessages consumerStatus of the holder of an id
    clusterResp,         \* result of the last cluster:* handler to return
    quit                 \* where the app's before-quit handler stands

clusterVars == <<now, connectedClusters, clusterResp>>
clientVars == <<clientNative, clientProducers, clientConsumers, clientReaders, clientClose>>
scVars == <<consumerIdCounter, sc, streamingConsumers, native>>
callVars == <<startCalls, stopCalls, opResp>>
sinkVars == <<sink, pausedDeliveries, ackFailed>>
uiVars == <<mainWindow, consumerStatus>>
resVars == <<producerIdCounter, producers, consumers, readers, producerNative,
             readerNative, createCalls, closeOps, temps, adminCalls>>
vars == <<clusterVars, clientVars, scVars, callVars, sinkVars, uiVars, resVars, issued, quit>>

NoConsumer == [client |-> 0, paused |-> FALSE, stopRequested |-> FALSE, pc |-> "none"]
NoNative == [recvInFlight |-> 0, closeCalls |-> 0, closed |-> FALSE, received |-> 0]
IdleClose == [pc |-> "idle", cluster |-> "", client |-> 0, snap |-> {}]
IdleStop == [pc |-> "idle", id |-> 0]
NoWrapper == [closeCalls |-> 0, closed |-> FALSE]
IdleCloseOp == [pc |-> "idle", kind |-> "", id |-> 0]
NoTemp == [pc |-> "none", op |-> "", client |-> 0, result |-> ""]
NoQuit == [pc |-> "idle", cur |-> 0, last |-> 0, slot |-> 0, cluster |-> ""]

\* the {success, error} envelope a handler returns, with the handler's name
Envelope(op, res) == [op |-> op, res |-> res]
\* the envelope of a resource handler: on success of a create, data is the id
\* `<prefix>_<id>` with the prefix the handler op uses; 0 where no id is returned
Reply(op, res, id) == [op |-> op, res |-> res, id |-> id]

Init ==
    /\ now = 0
    /\ quit = NoQuit
    /\ connectedClusters = <<>>
    /\ clientNative = [k \in ClientIds |-> FALSE]
    /\ clientConsumers = [k \in ClientIds |-> {}]
    /\ clientClose = [d \in CloseSlots |-> IdleClose]
    /\ consumerIdCounter = 0
    /\ sc = [n \in Ids |-> NoConsumer]
    /\ streamingConsumers = {}
    /\ native = [n \in Ids |-> NoNative]
    /\ startCalls = [k \in ClientIds |-> 0]
    /\ stopCalls = [s \in StopSlots |-> IdleStop]
    /\ sink = [n \in Ids |-> <<>>]
    /\ pausedDeliveries = [n \in Ids |-> 0]
    /\ ackFailed = [n \in Ids |-> FALSE]
    /\ opResp = Reply("none", "none", 0)
    /\ mainWindow = TRUE
    /\ consumerStatus = [n \in Ids |-> "stopped"]
    /\ clusterResp = Envelope("none", "none")
    /\ clientProducers = [k \in ClientIds |-> {}]
    /\ clientReaders = [k \in ClientIds |-> {}]
    /\ producerIdCounter = 0
    /\ producers = {}
    /\ consumers = {}
    /\ readers = {}
    /\ producerNative = [w \in ProducerWrappers |-> NoWrapper]
    /\ readerNative = [w \in ReaderWrappers |-> NoWrapper]
    /\ createCalls = [kind \in Kinds |-> [k \in ClientIds |-> 0]]
    /\ closeOps = [q \in CloseOpSlots |-> IdleCloseOp]
    /\ temps = [t \in TempIds |-> NoTemp]
    /\ adminCalls = [made |-> 0, pending |-> 0]
    /\ issued = EmptyBag

\* Map.delete on a function whose domain is the key set
MapDelete(f, key) == [x \in DOMAIN f \ {key} |-> f[x]]

\* ------------------------------------------------------- cluster registry

\* Connect without the connectedClusters.has() check: set() overwrites
ConnectOverwrite(c, ctorThrows) ==
    /\ now < MaxClock
    /\ now' = now + 1
    /\ IF ctorThrows
       THEN /\ clusterResp' = Envelope("connect", "error")
            /\ UNCHANGED connectedClusters
       ELSE /\ connectedClusters' =
                  [x \in DOMAIN connectedClusters \cup {c} |->
                      IF x = c THEN [connectedAt |-> now', client |-> now']
                      ELSE connectedClusters[x]]
            /\ clusterResp' = Envelope("connect", "ok")
    /\ UNCHANGED <<clientVars, scVars, callVars, sinkVars, uiVars,
                   resVars, issued, quit>>

\* cluster:connect with config.clusterId = c; ctorThrows: building the
\* authentication / client objects throws and the handler's catch answers
Connect(c, ctorThrows) ==
    /\ now < MaxClock
    /\ now' = now + 1
    /\ IF c \in DOMAIN connectedClusters
       THEN /\ clusterResp' = Envelope("connect", "AlreadyConnected")
            /\ UNCHANGED connectedClusters
       ELSE IF ctorThrows
       THEN /\ clusterResp' = Envelope("connect", "error")
            /\ UNCHANGED connectedClusters
       ELSE /\ connectedClusters' =
                  (c :> [connectedAt |-> now', client |-> now']) @@ connectedClusters
            /\ clusterResp' = Envelope("connect", "ok")
    /\ UNCHANGED <<clientVars, scVars, callVars, sinkVars, uiVars,
                   resVars, issued, quit>>


\* close() called on every wrapper of S
CloseAll(nat, S) ==
    [x \in DOMAIN nat |-> IF x \in S THEN [nat[x] EXCEPT !.closeCalls = @ + 1] ELSE nat[x]]

\* the closes of okSet resolved
SettleAll(nat, okSet) ==
    [x \in DOMAIN nat |-> IF x \in okSet THEN [nat[x] EXCEPT !.closed = TRUE] ELSE nat[x]]

\* PulsarMessageClient.close() from its phase number `from` on: the phase at
\* which it next awaits a native operation. `await Promise.all([])` on an
\* empty member set, and a null this.client, only yield to the microtask
\* queue, where no handler and no timer runs.
FirstPhase(from, P, C, R, hasNative) ==
    IF from <= 1 /\ P # {} THEN "producers"
    ELSE IF from <= 2 /\ C # {} THEN "consumers"
    ELSE IF from <= 3 /\ R # {} THEN "readers"
    ELSE IF hasNative THEN "native"
    ELSE "return"

\* close() of client k, called for cluster c by call d, arrives at phase ph:
\* it calls close() on Array.from() of the phase's member set and awaits, or
\* awaits the native client's close, or returns: to cluster:disconnect, which
\* deletes the cluster and answers success, or to the before-quit handler
\* when that is the caller (quit.slot = d), which goes on with its loop over
\* the clusters. pn, cn, rn: the native producers, consumers and readers as
\* the phase before left them.
EnterPhase(d, c, k, ph, pn, cn, rn, P, C, R) ==
    /\ producerNative' = IF ph = "producers" THEN CloseAll(pn, P) ELSE pn
    /\ native' = IF ph = "consumers" THEN CloseAll(cn, C) ELSE cn
    /\ readerNative' = IF ph = "readers" THEN CloseAll(rn, R) ELSE rn
    /\ IF ph = "return"
       THEN /\ clientClose' = [clientClose EXCEPT ![d] = IdleClose]
            /\ IF quit.slot = d
               THEN /\ quit' = [quit EXCEPT !.pc = "clusters", !.slot = 0, !.cluster = ""]
                    /\ UNCHANGED <<connectedClusters, clusterResp>>
               ELSE /\ connectedClusters' = MapDelete(connectedClusters, c)
                    /\ clusterResp' = Envelope("disconnect", "ok")
                    /\ UNCHANGED quit
       ELSE /\ clientClose' = [clientClose EXCEPT ![d] =
                   [pc |-> ph, cluster |-> c, client |-> k,
                    snap |-> IF ph = "producers" THEN P
                             ELSE IF ph = "consumers" THEN C
                             ELSE IF ph = "readers" THEN R
                             ELSE {}]]
            /\ quit' = IF quit.slot = d THEN [quit EXCEPT !.pc = "cluster"] ELSE quit
            /\ UNCHANGED <<connectedClusters, clusterResp>>

\* cluster:disconnect, up to the first native operation that
\* connection.client.close() awaits
DisconnectBegin(c, d) ==
    /\ clientClose[d].pc = "idle"
    /\ \A e \in CloseSlots : e < d => clientClose[e].pc # "idle"
    /\ IF c \notin DOMAIN connectedClusters
       THEN /\ clusterResp' = Envelope("disconnect", "NotConnected")
            /\ UNCHANGED <<connectedClusters, clientClose, producerNative, native,
                           readerNative, quit>>
       ELSE LET k == connectedClusters[c].client
                P == clientProducers[k]
                C == clientConsumers[k]
                R == clientReaders[k]
            IN EnterPhase(d, c, k, FirstPhase(1, P, C, R, clientNative[k]),
                          producerNative, native, readerNative, P, C, R)
    /\ UNCHANGED <<now, clientNative, clientProducers, clientConsumers, clientReaders,
                   consumerIdCounter, sc, streamingConsumers, callVars, sinkVars, uiVars,
                   producerIdCounter, producers, consumers, readers, createCalls,
                   closeOps, temps, adminCalls, issued>>

\* The handler's continuation after client.close() resolved:
\* connectedClusters.delete(clusterId); return success
DisconnectReturn(d) ==
    /\ connectedClusters' = MapDelete(connectedClusters, clientClose[d].cluster)
    /\ clientClose' = [clientClose EXCEPT ![d] = IdleClose]
    /\ clusterResp' = Envelope("disconnect", "ok")

\* PulsarMessageClient.close(): every producer close of the snapshot has
\* settled (okSet: those that resolved; the others rejected and were logged),
\* this.producers.clear(), and close() goes on to its next phase
ClientCloseProducersSettled(d, okSet) ==
    /\ clientClose[d].pc = "producers"
    /\ okSet \subseteq clientClose[d].snap
    /\ LET k == clientClose[d].client
           C == clientConsumers[k]
           R == clientReaders[k]
       IN /\ clientProducers' = [clientProducers EXCEPT ![k] = {}]
          /\ EnterPhase(d, clientClose[d].cluster, k,
                        FirstPhase(2, {}, C, R, clientNative[k]),
                        SettleAll(producerNative, okSet), native, readerNative, {}, C, R)
    /\ UNCHANGED <<now, clientNative, clientConsumers, clientReaders,
                   consumerIdCounter, sc, streamingConsumers, callVars, sinkVars, uiVars,
                   producerIdCounter, producers, consumers, readers, createCalls,
                   closeOps, temps, adminCalls, issued>>

\* every consumer close of the snapshot has settled, this.consumers.clear(),
\* and close() goes on to its next phase
ClientCloseConsumersSettled(d, okSet) ==
    /\ clientClose[d].pc = "consumers"
    /\ okSet \subseteq clientClose[d].snap
    /\ LET k == clientClose[d].client
           R == clientReaders[k]
       IN /\ clientConsumers' = [clientConsumers EXCEPT ![k] = {}]
          /\ EnterPhase(d, clientClose[d].cluster, k,
                        FirstPhase(3, {}, {}, R, clientNative[k]),
                        producerNative, SettleAll(native, okSet), readerNative, {}, {}, R)
    /\ UNCHANGED <<now, clientNative, clientProducers, clientReaders,
                   consumerIdCounter, sc, streamingConsumers, callVars, sinkVars, uiVars,
                   producerIdCounter, producers, consumers, readers, createCalls,
                   closeOps, temps, adminCalls, issued>>

\* every reader close of the snapshot has settled, this.readers.clear(), and
\* close() goes on to the native client
ClientCloseReadersSettled(d, okSet) ==
    /\ clientClose[d].pc = "readers"
    /\ okSet \subseteq clientClose[d].snap
    /\ LET k == clientClose[d].client
       IN /\ clientReaders' = [clientReaders EXCEPT ![k] = {}]
          /\ EnterPhase(d, clientClose[d].cluster, k,
                        FirstPhase(4, {}, {}, {}, clientNative[k]),
                        producerNative, native, SettleAll(readerNative, okSet), {}, {}, {})
    /\ UNCHANGED <<now, clientNative, clientProducers, clientConsumers,
                   consumerIdCounter, sc, streamingConsumers, callVars, sinkVars, uiVars,
                   producerIdCounter, producers, consumers, readers, createCalls,
                   closeOps, temps, adminCalls, issued>>

\* a disconnect that also drops the streaming consumers of the client from
\* their registry
ClientCloseNativeSettledCascade(d, ok) ==
    /\ clientClose[d].pc = "native"
    /\ clientNative' = IF ok THEN [clientNative EXCEPT ![clientClose[d].client] = FALSE]
                       ELSE clientNative
    /\ streamingConsumers' =
          {n \in streamingConsumers : sc[n].client # clientClose[d].client}
    /\ IF quit.slot = d
       THEN /\ clientClose' = [clientClose EXCEPT ![d] = IdleClose]
            /\ quit' = [quit EXCEPT !.pc = "clusters", !.slot = 0, !.cluster = ""]
            /\ UNCHANGED <<connectedClusters, clusterResp>>
       ELSE IF ok
       THEN /\ DisconnectReturn(d)
            /\ UNCHANGED quit
       ELSE /\ clientClose' = [clientClose EXCEPT ![d] = IdleClose]
            /\ clusterResp' = Envelope("disconnect", "error")
            /\ UNCHANGED <<connectedClusters, quit>>
    /\ UNCHANGED <<now, clientProducers, clientConsumers, clientReaders, consumerIdCounter,
                   sc, native, callVars, sinkVars, uiVars, resVars, issued>>

\* await this.client.close() settled: resolved -> this.client = null and the
\* handler deletes the cluster; rejected -> close() throws into the
\* handler's catch, which answers an error and deletes nothing. Called from
\* before-quit (quit.slot = d), the rejection is logged and either way the
\* handler goes on with its loop over the clusters.
ClientCloseNativeSettled(d, ok) ==
    /\ clientClose[d].pc = "native"
    /\ clientNative' = IF ok THEN [clientNative EXCEPT ![clientClose[d].client] = FALSE]
                       ELSE clientNative
    /\ IF quit.slot = d
       THEN /\ clientClose' = [clientClose EXCEPT ![d] = IdleClose]
            /\ quit' = [quit EXCEPT !.pc = "clusters", !.slot = 0, !.cluster = ""]
            /\ UNCHANGED <<connectedClusters, clusterResp>>
       ELSE IF ok
       THEN /\ DisconnectReturn(d)
            /\ UNCHANGED quit
       ELSE /\ clientClose' = [clientClose EXCEPT ![d] = IdleClose]
            /\ clusterResp' = Envelope("disconnect", "error")
            /\ UNCHANGED <<connectedClusters, quit>>
    /\ UNCHANGED <<now, clientProducers, clientConsumers, clientReaders, scVars, callVars,
                   sinkVars, uiVars, resVars, issued>>

\* cluster:list reads the registry and returns a snapshot
ListClusters ==
    /\ clusterResp' = Envelope("list", "ok")
    /\ UNCHANGED <<now, connectedClusters, clientVars, scVars, callVars, sinkVars, uiVars,
                   resVars, issued, quit>>

\* ------------------------------------------------- streaming consumers

RECURSIVE SumOver(_, _)
SumOver(f, S) ==
    IF S = {} THEN 0
    ELSE LET x == CHOOSE y \in S : TRUE IN f[x] + SumOver(f, S \ {x})

\* startConsumer calls whose subscribe is pending
PendingStarts == SumOver(startCalls, ClientIds)
\* creates of one kind awaiting the client
PendingCreates(kind) == SumOver(createCalls[kind], ClientIds)
\* pending calls that will take ++consumerIdCounter when they resume
PendingCounterCreates ==
    PendingStarts + PendingCreates("consumer") + PendingCreates("reader")
\* messages the native consumers have returned so far
TotalReceived == SumOver([n \in Ids |-> native[n].received], Ids)

\* messages:startConsumer up to its await of client.createConsumer():
\* ensureClient() builds the native client, client.subscribe is pending
StartConsumerBegin(c) ==
    /\ IF c \notin DOMAIN connectedClusters
       THEN /\ opResp' = Reply("startConsumer", "NotConnected", 0)
            /\ UNCHANGED <<clientNative, startCalls>>
       ELSE LET k == connectedClusters[c].client
            IN /\ PendingStarts < MaxPendingStarts
               /\ consumerIdCounter + PendingCounterCreates < MaxIds
               /\ clientNative' = [clientNative EXCEPT ![k] = TRUE]
               /\ startCalls' = [startCalls EXCEPT ![k] = @ + 1]
               /\ UNCHANGED opResp
    /\ UNCHANGED <<clusterVars, clientProducers, clientConsumers, clientReaders,
                   clientClose, scVars, stopCalls, sinkVars, uiVars,
                   resVars, issued, quit>>

\* the loop head without the paused check
LoopTopIgnorePause(c) ==
    IF c.stopRequested THEN "done" ELSE "recv"

\* the loop head testing paused before stopRequested: while (true) {
\* if (paused) { sleep; continue }  if (stopRequested) break; ... }
LoopTopPausedFirst(c) ==
    IF c.paused THEN "pauseSleep"
    ELSE IF c.stopRequested THEN "done"
    ELSE "recv"

\* a loop that does not read stopRequested at the head of an iteration
LoopTopNoStopCheck(c) ==
    IF c.paused THEN "pauseSleep"
    ELSE "recv"

\* while (!stopRequested) { if (paused) sleep ... else receive_timeout }:
\* where the loop's next iteration suspends, from the flags it reads
LoopTop(c) ==
    IF c.stopRequested THEN "done"
    ELSE IF c.paused THEN "pauseSleep"
    ELSE "recv"

\* The loop of consumer n runs from the head of the while to its next await;
\* nat is the native consumer as the step leaves it before any new receive
LoopIterate(n, nat) ==
    /\ sc' = [sc EXCEPT ![n].pc = LoopTop(sc[n])]
    /\ native' = [native EXCEPT ![n] =
           IF LoopTop(sc[n]) = "recv"
           THEN [nat EXCEPT !.recvInFlight = @ + 1]
           ELSE nat]

\* a startConsumer that also enters its consumer into the consumers Map
StartConsumerSubscribedBoth(k) ==
    /\ startCalls[k] > 0
    /\ LET n == consumerIdCounter + 1
           fresh == [client |-> k, paused |-> FALSE, stopRequested |-> FALSE, pc |-> "none"]
       IN /\ consumerIdCounter' = n
          /\ clientConsumers' = [clientConsumers EXCEPT ![k] = @ \cup {n}]
          /\ streamingConsumers' = streamingConsumers \cup {n}
          /\ consumers' = consumers \cup {n}
          /\ sc' = [sc EXCEPT ![n] = [fresh EXCEPT !.pc = LoopTop(fresh)]]
          /\ native' = [native EXCEPT ![n] =
                 IF LoopTop(fresh) = "recv"
                 THEN [NoNative EXCEPT !.recvInFlight = 1]
                 ELSE NoNative]
          /\ consumerStatus' = [consumerStatus EXCEPT ![n] = "running"]
    /\ startCalls' = [startCalls EXCEPT ![k] = @ - 1]
    /\ opResp' = Reply("startConsumer", "ok", consumerIdCounter')
    /\ issued' = issued (+) SetToBag({[kind |-> "streaming_consumer", id |-> consumerIdCounter']})
    /\ UNCHANGED <<clusterVars, clientNative, clientProducers, clientReaders, clientClose,
                   stopCalls, sinkVars, mainWindow, producerIdCounter, producers, readers,
                   producerNative, readerNative, createCalls, closeOps, temps, adminCalls,
                   quit>>

\* client.subscribe resolved: the wrapper joins client.consumers, the handler
\* takes ++consumerIdCounter, registers the StreamingConsumer and calls
\* startConsumerLoop, which runs synchronously into its first receive
StartConsumerSubscribed(k) ==
    /\ startCalls[k] > 0
    /\ LET n == consumerIdCounter + 1
           fresh == [client |-> k, paused |-> FALSE, stopRequested |-> FALSE, pc |-> "none"]
       IN /\ consumerIdCounter' = n
          /\ clientConsumers' = [clientConsumers EXCEPT ![k] = @ \cup {n}]
          /\ streamingConsumers' = streamingConsumers \cup {n}
          /\ sc' = [sc EXCEPT ![n] = [fresh EXCEPT !.pc = LoopTop(fresh)]]
          /\ native' = [native EXCEPT ![n] =
                 IF LoopTop(fresh) = "recv"
                 THEN [NoNative EXCEPT !.recvInFlight = 1]
                 ELSE NoNative]
          /\ consumerStatus' = [consumerStatus EXCEPT ![n] = "running"]
    /\ startCalls' = [startCalls EXCEPT ![k] = @ - 1]
    /\ opResp' = Reply("startConsumer", "ok", consumerIdCounter')
    /\ issued' = issued (+) SetToBag({[kind |-> "streaming_consumer", id |-> consumerIdCounter']})
    /\ UNCHANGED <<clusterVars, clientNative, clientProducers, clientReaders, clientClose,
                   stopCalls, sinkVars, mainWindow,
                   resVars, quit>>

\* the id is taken from the counter before the subscribe is awaited
StartConsumerFailedBurnsId(k) ==
    /\ startCalls[k] > 0
    /\ startCalls' = [startCalls EXCEPT ![k] = @ - 1]
    /\ opResp' = Reply("startConsumer", "error", 0)
    /\ consumerIdCounter' = consumerIdCounter + 1
    /\ UNCHANGED <<clusterVars, clientVars, sc, streamingConsumers, native, stopCalls,
                   sinkVars, uiVars,
                   resVars, issued, quit>>

\* client.subscribe rejected: the handler's catch answers the error
StartConsumerFailed(k) ==
    /\ startCalls[k] > 0
    /\ startCalls' = [startCalls EXCEPT ![k] = @ - 1]
    /\ opResp' = Reply("startConsumer", "error", 0)
    /\ UNCHANGED <<clusterVars, clientVars, scVars, stopCalls, sinkVars, uiVars,
                   resVars, issued, quit>>

\* messages:pauseConsumer, and TestMessages' setConsumerStatus('paused')
PauseConsumer(n) ==
    /\ IF n \in streamingConsumers
       THEN /\ sc' = [sc EXCEPT ![n].paused = TRUE]
            /\ consumerStatus' = [consumerStatus EXCEPT ![n] = "paused"]
       ELSE UNCHANGED <<sc, consumerStatus>>
    /\ UNCHANGED <<clusterVars, clientVars, consumerIdCounter, streamingConsumers,
                   native, callVars, sinkVars, mainWindow,
                   resVars, issued, quit>>

\* TestMessages.handleResumeConsumer (the Resume button shows while the
\* component's status is 'paused'): no IPC call, only setConsumerStatus
handleResumeConsumer(n) ==
    /\ consumerStatus[n] = "paused"
    /\ consumerStatus' = [consumerStatus EXCEPT ![n] = "running"]
    /\ UNCHANGED <<clusterVars, clientVars, scVars, callVars, sinkVars, mainWindow,
                   resVars, issued, quit>>

\* ------------------------------------------------------ the receive loop

\* the test without its mainWindow conjunct
DeliverableNoWindowTest(c, gotMsg) == gotMsg /\ ~c.stopRequested

\* the test without its stopRequested conjunct
DeliverableIgnoringStop(c, gotMsg) == gotMsg /\ mainWindow

\* if (msg && mainWindow && !streamingConsumer.stopRequested)
Deliverable(c, gotMsg) == gotMsg /\ mainWindow /\ ~c.stopRequested

\* events put in front of the ones already sent
SendFront(q, m) == <<m>> \o q

\* mainWindow.webContents.send('messages:received', ...): the event follows
\* the events already sent
Send(q, m) == Append(q, m)

\* receive_timeout as a race against a timer: on a timeout the loop goes on
\* while the native receive stays outstanding
RecvReturnRace(n, gotMsg) ==
    /\ sc[n].pc = "recv"
    /\ gotMsg => (TotalReceived < MaxMsgs /\ ~native[n].closed)
    /\ LET nat == [native[n] EXCEPT !.recvInFlight = IF gotMsg THEN @ - 1 ELSE @,
                                    !.received = IF gotMsg THEN @ + 1 ELSE @]
       IN IF gotMsg /\ mainWindow /\ ~sc[n].stopRequested
          THEN /\ sink' = [sink EXCEPT ![n] = Append(@, nat.received)]
               /\ pausedDeliveries' = [pausedDeliveries EXCEPT ![n] =
                      IF sc[n].paused THEN @ + 1 ELSE @]
               /\ UNCHANGED ackFailed
               /\ sc' = [sc EXCEPT ![n].pc = "ack"]
               /\ native' = [native EXCEPT ![n] = nat]
          ELSE /\ LoopIterate(n, nat)
               /\ UNCHANGED sinkVars
    /\ UNCHANGED <<clusterVars, clientVars, consumerIdCounter, streamingConsumers,
                   callVars, uiVars,
                   resVars, issued, quit>>

\* await consumer.receive_timeout(1000) settled: a message, or null (timeout,
\* or any native error, which PulsarConsumer.receive_timeout turns into null)
RecvReturn(n, gotMsg) ==
    /\ sc[n].pc = "recv"
    /\ gotMsg => (TotalReceived < MaxMsgs /\ ~native[n].closed)
    /\ LET nat == [native[n] EXCEPT !.recvInFlight = @ - 1,
                                    !.received = IF gotMsg THEN @ + 1 ELSE @]
       IN IF Deliverable(sc[n], gotMsg)
          THEN /\ sink' = [sink EXCEPT ![n] = Send(@, nat.received)]
               /\ pausedDeliveries' = [pausedDeliveries EXCEPT ![n] =
                      IF sc[n].paused THEN @ + 1 ELSE @]
               /\ UNCHANGED ackFailed
               /\ sc' = [sc EXCEPT ![n].pc = "ack"]
               /\ native' = [native EXCEPT ![n] = nat]
          ELSE /\ LoopIterate(n, nat)
               /\ UNCHANGED sinkVars
    /\ UNCHANGED <<clusterVars, clientVars, consumerIdCounter, streamingConsumers,
                   callVars, uiVars,
                   resVars, issued, quit>>

\* how the native consumer.receive(timeoutMs) can settle
RecvOutcomes == {"msg", "timeout", "error"}

\* PulsarConsumer.receive_timeout: the converted message when the native
\* receive resolved (TRUE), null when it rejected, whatever the error (FALSE)
receive_timeout(outcome) == outcome = "msg"

\* the native receive of the loop's receive_timeout(1000) settled
RecvSettled(n, outcome) == RecvReturn(n, receive_timeout(outcome))

\* a rejected acknowledge ends the loop
AckReturnFatal(n, ok) ==
    /\ sc[n].pc = "ack"
    /\ IF ok
       THEN /\ LoopIterate(n, native[n])
            /\ UNCHANGED ackFailed
       ELSE /\ sc' = [sc EXCEPT ![n].pc = "done"]
            /\ ackFailed' = [ackFailed EXCEPT ![n] = TRUE]
            /\ UNCHANGED native
    /\ UNCHANGED <<clusterVars, clientVars, consumerIdCounter, streamingConsumers,
                   callVars, sink, pausedDeliveries, uiVars,
                   resVars, issued, quit>>

\* a rejected acknowledge raises a flag every loop reads: all of them stop
AckReturnAbortAll(n, ok) ==
    /\ sc[n].pc = "ack"
    /\ IF ok
       THEN /\ LoopIterate(n, native[n])
            /\ UNCHANGED ackFailed
       ELSE /\ sc' = [m \in Ids |->
                     IF m = n THEN [sc[m] EXCEPT !.pc = "backoff"]
                     ELSE [sc[m] EXCEPT !.stopRequested = TRUE]]
            /\ ackFailed' = [ackFailed EXCEPT ![n] = TRUE]
            /\ UNCHANGED native
    /\ UNCHANGED <<clusterVars, clientVars, consumerIdCounter, streamingConsumers,
                   callVars, sink, pausedDeliveries, uiVars,
                   resVars, issued, quit>>

\* await consumer.acknowledge(msg) settled; a rejection lands in the loop's
\* catch: break if stopRequested, else the 100 ms backoff
AckReturn(n, ok) ==
    /\ sc[n].pc = "ack"
    /\ IF ok
       THEN /\ LoopIterate(n, native[n])
            /\ UNCHANGED ackFailed
       ELSE /\ sc' = [sc EXCEPT ![n].pc = IF sc[n].stopRequested THEN "done" ELSE "backoff"]
            /\ ackFailed' = [ackFailed EXCEPT ![n] = TRUE]
            /\ UNCHANGED native
    /\ UNCHANGED <<clusterVars, clientVars, consumerIdCounter, streamingConsumers,
                   callVars, sink, pausedDeliveries, uiVars,
                   resVars, issued, quit>>

\* the 100 ms timer of the paused poll or of the backoff fired
SleepReturn(n) ==
    /\ sc[n].pc \in {"pauseSleep", "backoff"}
    /\ LoopIterate(n, native[n])
    /\ UNCHANGED <<clusterVars, clientVars, consumerIdCounter, streamingConsumers,
                   callVars, sinkVars, uiVars,
                   resVars, issued, quit>>

\* ------------------------------------------------------- stopConsumer

\* stopConsumer that neither sets stopRequested nor awaits the loop: it
\* calls consumer.close() at once
StopConsumerBeginNoSignal(s, n) ==
    /\ stopCalls[s].pc = "idle"
    /\ \A t \in StopSlots : t < s => stopCalls[t].pc # "idle"
    /\ IF n \in streamingConsumers
       THEN /\ native' = [native EXCEPT ![n].closeCalls = @ + 1]
            /\ stopCalls' = [stopCalls EXCEPT ![s] = [pc |-> "closing", id |-> n]]
       ELSE /\ stopCalls' = [stopCalls EXCEPT ![s] = [pc |-> "NotFound", id |-> n]]
            /\ UNCHANGED native
    /\ UNCHANGED <<clusterVars, clientVars, consumerIdCounter, sc, streamingConsumers,
                   startCalls, opResp, sinkVars, uiVars,
                   resVars, issued, quit>>

\* messages:stopConsumer up to `await streamingConsumer.receiveLoop`
StopConsumerBegin(s, n) ==
    /\ stopCalls[s].pc = "idle"
    /\ \A t \in StopSlots : t < s => stopCalls[t].pc # "idle"
    /\ IF n \in streamingConsumers
       THEN /\ sc' = [sc EXCEPT ![n].stopRequested = TRUE]
            /\ stopCalls' = [stopCalls EXCEPT ![s] = [pc |-> "join", id |-> n]]
       ELSE /\ stopCalls' = [stopCalls EXCEPT ![s] = [pc |-> "NotFound", id |-> n]]
            /\ UNCHANGED sc
    /\ UNCHANGED <<clusterVars, clientVars, consumerIdCounter, streamingConsumers,
                   native, startCalls, opResp, sinkVars, uiVars,
                   resVars, issued, quit>>

\* stopConsumer without `await streamingConsumer.receiveLoop`
StopConsumerJoinedNoWait(s) ==
    /\ stopCalls[s].pc = "join"
    /\ native' = [native EXCEPT ![stopCalls[s].id].closeCalls = @ + 1]
    /\ stopCalls' = [stopCalls EXCEPT ![s].pc = "closing"]
    /\ UNCHANGED <<clusterVars, clientVars, consumerIdCounter, sc, streamingConsumers,
                   startCalls, opResp, sinkVars, uiVars,
                   resVars, issued, quit>>

\* the awaited receiveLoop promise resolved: consumer.close() is called
StopConsumerJoined(s) ==
    /\ stopCalls[s].pc = "join"
    /\ sc[stopCalls[s].id].pc = "done"
    /\ native' = [native EXCEPT ![stopCalls[s].id].closeCalls = @ + 1]
    /\ stopCalls' = [stopCalls EXCEPT ![s].pc = "closing"]
    /\ UNCHANGED <<clusterVars, clientVars, consumerIdCounter, sc, streamingConsumers,
                   startCalls, opResp, sinkVars, uiVars,
                   resVars, issued, quit>>

\* stopConsumer without streamingConsumers.delete(consumerId)
StopConsumerClosedNoDelete(s, ok) ==
    /\ stopCalls[s].pc = "closing"
    /\ LET n == stopCalls[s].id
       IN IF ok
          THEN /\ native' = [native EXCEPT ![n].closed = TRUE]
               /\ stopCalls' = [stopCalls EXCEPT ![s].pc = "ok"]
               /\ consumerStatus' = [consumerStatus EXCEPT ![n] = "stopped"]
               /\ UNCHANGED streamingConsumers
          ELSE /\ stopCalls' = [stopCalls EXCEPT ![s].pc = "error"]
               /\ UNCHANGED <<native, streamingConsumers, consumerStatus>>
    /\ UNCHANGED <<clusterVars, clientVars, consumerIdCounter, sc, startCalls,
                   opResp, sinkVars, mainWindow,
                   resVars, issued, quit>>

\* await consumer.close() settled: resolved -> streamingConsumers.delete and
\* success (TestMessages then sets 'stopped'); rejected -> the catch answers
\* the error and the entry stays
StopConsumerClosed(s, ok) ==
    /\ stopCalls[s].pc = "closing"
    /\ LET n == stopCalls[s].id
       IN IF ok
          THEN /\ native' = [native EXCEPT ![n].closed = TRUE]
               /\ streamingConsumers' = streamingConsumers \ {n}
               /\ stopCalls' = [stopCalls EXCEPT ![s].pc = "ok"]
               /\ consumerStatus' = [consumerStatus EXCEPT ![n] = "stopped"]
          ELSE /\ stopCalls' = [stopCalls EXCEPT ![s].pc = "error"]
               /\ UNCHANGED <<native, streamingConsumers, consumerStatus>>
    /\ UNCHANGED <<clusterVars, clientVars, consumerIdCounter, sc, startCalls,
                   opResp, sinkVars, mainWindow,
                   resVars, issued, quit>>

\* ------------------------------- producers, consumers and readers by id

\* an id computed from the size of the map: a closed id comes back
NextIdBySize(counter, registry) == Cardinality(registry) + 1

\* `<prefix>_${++counter}`: the number of the id a create handler hands out
NextId(counter, registry) == counter + 1

\* the Map a kind of id lives in
Registry(kind) ==
    IF kind = "producer" THEN producers
    ELSE IF kind = "consumer" THEN consumers
    ELSE readers

\* the numbers the ids of a kind can carry
IdsOf(kind) == IF kind = "producer" THEN ProducerIds ELSE Ids

\* the native object behind the resource registered as id in the kind's Map
NativeOf(kind, id) ==
    IF kind = "producer" THEN producerNative[<<"id", id>>]
    ELSE IF kind = "consumer" THEN native[id]
    ELSE readerNative[<<"id", id>>]

\* the handler that creates a kind of resource
CreateOp(kind) ==
    IF kind = "producer" THEN "producer:create"
    ELSE IF kind = "consumer" THEN "consumer:create"
    ELSE "messages:browseMessages"

\* the handler that closes a kind of resource
CloseOp(kind) ==
    IF kind = "producer" THEN "producer:close"
    ELSE IF kind = "consumer" THEN "consumer:close"
    ELSE "messages:closeReader"

\* producer:create, consumer:create, messages:browseMessages up to the await
\* of client.createProducer / createConsumer / createReader
CreateBegin(kind, c) ==
    /\ IF c \notin DOMAIN connectedClusters
       THEN /\ opResp' = Reply(CreateOp(kind), "NotConnected", 0)
            /\ UNCHANGED <<clientNative, createCalls>>
       ELSE LET k == connectedClusters[c].client
            IN /\ PendingStarts + PendingCreates("producer") + PendingCreates("consumer")
                      + PendingCreates("reader") < MaxPendingCreates
               /\ IF kind = "producer"
                  THEN producerIdCounter + PendingCreates("producer") < MaxProducers
                  ELSE consumerIdCounter + PendingCounterCreates < MaxIds
               /\ clientNative' = [clientNative EXCEPT ![k] = TRUE]
               /\ createCalls' = [createCalls EXCEPT ![kind][k] = @ + 1]
               /\ UNCHANGED opResp
    /\ UNCHANGED <<clusterVars, clientProducers, clientConsumers, clientReaders, clientClose,
                   scVars, startCalls, stopCalls, sinkVars, uiVars, producerIdCounter,
                   producers, consumers, readers, producerNative, readerNative, closeOps,
                   temps, adminCalls, issued, quit>>

\* the client's create resolved: the wrapper joins the client's set, the
\* handler takes the next id of its counter and registers the resource
Created(kind, k) ==
    /\ createCalls[kind][k] > 0
    /\ createCalls' = [createCalls EXCEPT ![kind][k] = @ - 1]
    /\ IF kind = "producer"
       THEN LET id == NextId(producerIdCounter, producers)
            IN /\ producerIdCounter' = id
               /\ producers' = producers \cup {id}
               /\ clientProducers' = [clientProducers EXCEPT ![k] = @ \cup {<<"id", id>>}]
               /\ producerNative' = [producerNative EXCEPT ![<<"id", id>>] = NoWrapper]
               /\ issued' = issued (+) SetToBag({[kind |-> kind, id |-> id]})
               /\ opResp' = Reply(CreateOp(kind), "ok", id)
               /\ UNCHANGED <<consumerIdCounter, consumers, readers, clientConsumers,
                              clientReaders, native, readerNative>>
       ELSE IF kind = "consumer"
       THEN LET id == NextId(consumerIdCounter, consumers)
            IN /\ consumerIdCounter' = id
               /\ consumers' = consumers \cup {id}
               /\ clientConsumers' = [clientConsumers EXCEPT ![k] = @ \cup {id}]
               /\ native' = [native EXCEPT ![id] = NoNative]
               /\ issued' = issued (+) SetToBag({[kind |-> kind, id |-> id]})
               /\ opResp' = Reply(CreateOp(kind), "ok", id)
               /\ UNCHANGED <<producerIdCounter, producers, readers, clientProducers,
                              clientReaders, producerNative, readerNative>>
       ELSE LET id == NextId(consumerIdCounter, readers)
            IN /\ consumerIdCounter' = id
               /\ readers' = readers \cup {id}
               /\ clientReaders' = [clientReaders EXCEPT ![k] = @ \cup {<<"id", id>>}]
               /\ readerNative' = [readerNative EXCEPT ![<<"id", id>>] = NoWrapper]
               /\ issued' = issued (+) SetToBag({[kind |-> kind, id |-> id]})
               /\ opResp' = Reply(CreateOp(kind), "ok", id)
               /\ UNCHANGED <<producerIdCounter, producers, consumers, clientProducers,
                              clientConsumers, producerNative, native>>
    /\ UNCHANGED <<clusterVars, clientNative, clientClose, sc, streamingConsumers,
                   startCalls, stopCalls, sinkVars, uiVars, closeOps, temps, adminCalls,
                   quit>>

\* the client's create rejected: the handler's catch answers the error
CreateFailed(kind, k) ==
    /\ createCalls[kind][k] > 0
    /\ createCalls' = [createCalls EXCEPT ![kind][k] = @ - 1]
    /\ opResp' = Reply(CreateOp(kind), "error", 0)
    /\ UNCHANGED <<clusterVars, clientVars, scVars, startCalls, stopCalls, sinkVars, uiVars,
                   producerIdCounter, producers, consumers, readers, producerNative,
                   readerNative, closeOps, temps, adminCalls, issued, quit>>

\* a close handler that calls close() without looking the id up
CloseBeginNoLookup(q, kind, id) ==
    /\ closeOps[q].pc = "idle"
    /\ \A r \in CloseOpSlots : r < q => closeOps[r].pc # "idle"
    /\ closeOps' = [closeOps EXCEPT ![q] = [pc |-> "closing", kind |-> kind, id |-> id]]
    /\ producerNative' = IF kind = "producer"
                         THEN CloseAll(producerNative, {<<"id", id>>})
                         ELSE producerNative
    /\ native' = IF kind = "consumer" THEN CloseAll(native, {id}) ELSE native
    /\ readerNative' = IF kind = "reader"
                       THEN CloseAll(readerNative, {<<"id", id>>})
                       ELSE readerNative
    /\ UNCHANGED <<clusterVars, clientVars, consumerIdCounter, sc, streamingConsumers,
                   callVars, sinkVars, uiVars, producerIdCounter, producers, consumers,
                   readers, createCalls, temps, adminCalls, issued, quit>>

\* a close handler that deletes the entry before it awaits close()
CloseBeginDeleteFirst(q, kind, id) ==
    /\ closeOps[q].pc = "idle"
    /\ \A r \in CloseOpSlots : r < q => closeOps[r].pc # "idle"
    /\ IF id \in Registry(kind)
       THEN /\ NativeOf(kind, id).closeCalls < MaxCloseCalls
            /\ closeOps' = [closeOps EXCEPT ![q] = [pc |-> "closing", kind |-> kind, id |-> id]]
            /\ producerNative' = IF kind = "producer"
                                 THEN CloseAll(producerNative, {<<"id", id>>})
                                 ELSE producerNative
            /\ native' = IF kind = "consumer" THEN CloseAll(native, {id}) ELSE native
            /\ readerNative' = IF kind = "reader"
                               THEN CloseAll(readerNative, {<<"id", id>>})
                               ELSE readerNative
            /\ producers' = IF kind = "producer" THEN producers \ {id} ELSE producers
            /\ consumers' = IF kind = "consumer" THEN consumers \ {id} ELSE consumers
            /\ readers' = IF kind = "reader" THEN readers \ {id} ELSE readers
            /\ UNCHANGED opResp
       ELSE /\ opResp' = Reply(CloseOp(kind), "NotFound", id)
            /\ UNCHANGED <<closeOps, producerNative, native, readerNative, producers,
                           consumers, readers>>
    /\ UNCHANGED <<clusterVars, clientVars, consumerIdCounter, sc, streamingConsumers,
                   startCalls, stopCalls, sinkVars, uiVars, producerIdCounter,
                   createCalls, temps, adminCalls, issued, quit>>

\* producer:close, consumer:close, messages:closeReader up to the await of
\* the wrapper's close(); q: the call, one of those that can be pending
CloseBegin(q, kind, id) ==
    /\ closeOps[q].pc = "idle"
    /\ \A r \in CloseOpSlots : r < q => closeOps[r].pc # "idle"
    /\ IF id \in Registry(kind)
       THEN /\ NativeOf(kind, id).closeCalls < MaxCloseCalls
            /\ closeOps' = [closeOps EXCEPT ![q] = [pc |-> "closing", kind |-> kind, id |-> id]]
            /\ producerNative' = IF kind = "producer"
                                 THEN CloseAll(producerNative, {<<"id", id>>})
                                 ELSE producerNative
            /\ native' = IF kind = "consumer" THEN CloseAll(native, {id}) ELSE native
            /\ readerNative' = IF kind = "reader"
                               THEN CloseAll(readerNative, {<<"id", id>>})
                               ELSE readerNative
            /\ UNCHANGED opResp
       ELSE /\ opResp' = Reply(CloseOp(kind), "NotFound", id)
            /\ UNCHANGED <<closeOps, producerNative, native, readerNative>>
    /\ UNCHANGED <<clusterVars, clientVars, consumerIdCounter, sc, streamingConsumers,
                   startCalls, stopCalls, sinkVars, uiVars, producerIdCounter, producers,
                   consumers, readers, createCalls, temps, adminCalls, issued, quit>>

\* the wrapper's close() settled: resolved -> the entry is deleted and the
\* handler answers success; rejected -> the catch answers the error and the
\* delete is not reached
CloseSettled(q, ok) ==
    /\ closeOps[q].pc = "closing"
    /\ LET kind == closeOps[q].kind
           id == closeOps[q].id
       IN IF ok
          THEN /\ producerNative' = IF kind = "producer"
                                    THEN SettleAll(producerNative, {<<"id", id>>})
                                    ELSE producerNative
               /\ native' = IF kind = "consumer" THEN SettleAll(native, {id}) ELSE native
               /\ readerNative' = IF kind = "reader"
                                  THEN SettleAll(readerNative, {<<"id", id>>})
                                  ELSE readerNative
               /\ producers' = IF kind = "producer" THEN producers \ {id} ELSE producers
               /\ consumers' = IF kind = "consumer" THEN consumers \ {id} ELSE consumers
               /\ readers' = IF kind = "reader" THEN readers \ {id} ELSE readers
               /\ opResp' = Reply(CloseOp(kind), "ok", id)
          ELSE /\ opResp' = Reply(CloseOp(kind), "error", id)
               /\ UNCHANGED <<producerNative, native, readerNative, producers, consumers,
                              readers>>
    /\ closeOps' = [closeOps EXCEPT ![q] = IdleCloseOp]
    /\ UNCHANGED <<clusterVars, clientVars, consumerIdCounter, sc, streamingConsumers,
                   startCalls, stopCalls, sinkVars, uiVars, producerIdCounter, createCalls,
                   temps, adminCalls, issued, quit>>

\* the handler that forwards a call to a kind of resource
UseOp(kind) ==
    IF kind = "producer" THEN "producer:send"
    ELSE IF kind = "consumer" THEN "consumer:receive"
    ELSE "messages:readMessages"

\* a handler that calls the method without looking the id up
UseBeginNoLookup(q, kind, id) ==
    /\ closeOps[q].pc = "idle"
    /\ \A r \in CloseOpSlots : r < q => closeOps[r].pc # "idle"
    /\ closeOps' = [closeOps EXCEPT ![q] = [pc |-> "using", kind |-> kind, id |-> id]]
    /\ UNCHANGED <<clusterVars, clientVars, scVars, callVars, sinkVars, uiVars,
                   producerIdCounter, producers, consumers, readers, producerNative,
                   readerNative, createCalls, temps, adminCalls, issued, quit>>

\* producer:send, consumer:receive, messages:readMessages up to the await of
\* producer.send / consumer.receive[_timeout] / reader.readNext_timeout;
\* q: the call, one of those that can be pending
UseBegin(q, kind, id) ==
    /\ closeOps[q].pc = "idle"
    /\ \A r \in CloseOpSlots : r < q => closeOps[r].pc # "idle"
    /\ IF id \in Registry(kind)
       THEN /\ closeOps' = [closeOps EXCEPT ![q] = [pc |-> "using", kind |-> kind, id |-> id]]
            /\ UNCHANGED opResp
       ELSE /\ opResp' = Reply(UseOp(kind), "NotFound", id)
            /\ UNCHANGED closeOps
    /\ UNCHANGED <<clusterVars, clientVars, scVars, startCalls, stopCalls, sinkVars, uiVars,
                   producerIdCounter, producers, consumers, readers, producerNative,
                   readerNative, createCalls, temps, adminCalls, issued, quit>>

\* the awaited call settled. producer:send answers the message id or the
\* catch's error; consumer:receive answers the message, or an error for a
\* null or a rejection; messages:readMessages answers success with the
\* message or with [] for a null or a rejection
UseSettled(q, ok) ==
    /\ closeOps[q].pc = "using"
    /\ opResp' = Reply(UseOp(closeOps[q].kind),
                       IF ok \/ closeOps[q].kind = "reader" THEN "ok" ELSE "error",
                       closeOps[q].id)
    /\ closeOps' = [closeOps EXCEPT ![q] = IdleCloseOp]
    /\ UNCHANGED <<clusterVars, clientVars, scVars, startCalls, stopCalls, sinkVars, uiVars,
                   producerIdCounter, producers, consumers, readers, producerNative,
                   readerNative, createCalls, temps, adminCalls, issued, quit>>

\* a consumer:acknowledge that forwards the acknowledge to the consumer and
\* awaits it
ConsumerAcknowledgeForwards(id) ==
    /\ IF id \in consumers
       THEN /\ \E q \in CloseOpSlots :
                  /\ closeOps[q].pc = "idle"
                  /\ \A r \in CloseOpSlots : r < q => closeOps[r].pc # "idle"
                  /\ closeOps' = [closeOps EXCEPT ![q] =
                         [pc |-> "acking", kind |-> "consumer", id |-> id]]
            /\ UNCHANGED opResp
       ELSE /\ opResp' = Reply("consumer:acknowledge", "NotFound", id)
            /\ UNCHANGED closeOps
    /\ UNCHANGED <<clusterVars, clientVars, scVars, startCalls, stopCalls, sinkVars, uiVars,
                   producerIdCounter, producers, consumers, readers, producerNative,
                   readerNative, createCalls, temps, adminCalls, issued, quit>>

\* consumer:acknowledge: the consumer is looked up and success is returned;
\* the handler has no await and calls nothing on the consumer
ConsumerAcknowledge(id) ==
    /\ opResp' = Reply("consumer:acknowledge",
                       IF id \in consumers THEN "ok" ELSE "NotFound", id)
    /\ UNCHANGED <<clusterVars, clientVars, scVars, startCalls, stopCalls, sinkVars, uiVars,
                   resVars, issued, quit>>

\* ---------------------------------------------------------- admin calls

\* an admin handler that calls the admin client before it looks the cluster up
AdminBeginNoLookup(c) ==
    /\ adminCalls.made < MaxAdminCalls
    /\ adminCalls' = [made |-> adminCalls.made + 1, pending |-> adminCalls.pending + 1]
    /\ UNCHANGED <<clusterVars, clientVars, scVars, callVars, sinkVars, uiVars,
                   producerIdCounter, producers, consumers, readers, producerNative,
                   readerNative, createCalls, closeOps, temps, issued, quit>>

\* admin:listClusters, listTenants, listNamespaces, listTopics, getTopicStats,
\* listSubscriptions up to the await of the call on connection.admin
AdminBegin(c) ==
    /\ IF c \notin DOMAIN connectedClusters
       THEN /\ opResp' = Reply("admin", "NotConnected", 0)
            /\ UNCHANGED adminCalls
       ELSE /\ adminCalls.made < MaxAdminCalls
            /\ adminCalls' = [made |-> adminCalls.made + 1,
                              pending |-> adminCalls.pending + 1]
            /\ UNCHANGED opResp
    /\ UNCHANGED <<clusterVars, clientVars, scVars, startCalls, stopCalls, sinkVars, uiVars,
                   producerIdCounter, producers, consumers, readers, producerNative,
                   readerNative, createCalls, closeOps, temps, issued, quit>>

\* an admin handler without its try / catch: a rejected call rejects the
\* handler's promise and no envelope is returned
AdminSettledThrows(r) ==
    /\ adminCalls.pending > 0
    /\ IF r = "again"
       THEN /\ adminCalls.made < MaxAdminCalls
            /\ adminCalls' = [adminCalls EXCEPT !.made = @ + 1]
            /\ UNCHANGED opResp
       ELSE /\ adminCalls' = [adminCalls EXCEPT !.pending = @ - 1]
            /\ opResp' = Reply("admin", IF r = "error" THEN "rejected" ELSE r, 0)
    /\ UNCHANGED <<clusterVars, clientVars, scVars, startCalls, stopCalls, sinkVars, uiVars,
                   producerIdCounter, producers, consumers, readers, producerNative,
                   readerNative, createCalls, closeOps, temps, issued, quit>>

\* the call on the admin client settled. r = "again": admin:listTenants got
\* no tenant and awaits discoverAccessibleTenants()
AdminSettled(r) ==
    /\ adminCalls.pending > 0
    /\ IF r = "again"
       THEN /\ adminCalls.made < MaxAdminCalls
            /\ adminCalls' = [adminCalls EXCEPT !.made = @ + 1]
            /\ UNCHANGED opResp
       ELSE /\ adminCalls' = [adminCalls EXCEPT !.pending = @ - 1]
            /\ opResp' = Reply("admin", r, 0)
    /\ UNCHANGED <<clusterVars, clientVars, scVars, startCalls, stopCalls, sinkVars, uiVars,
                   producerIdCounter, producers, consumers, readers, producerNative,
                   readerNative, createCalls, closeOps, temps, issued, quit>>

\* ------------------------------------ messages:send, browse and peek

TempOps == {"messages:send", "messages:browse", "messages:peek"}

\* messages:send, messages:browse, messages:peek up to the await of the
\* client's createProducer / createReader for the temporary wrapper t
TempBegin(c, op, t) ==
    /\ IF c \notin DOMAIN connectedClusters
       THEN /\ opResp' = Reply(op, "NotConnected", 0)
            /\ UNCHANGED <<clientNative, temps>>
       ELSE LET k == connectedClusters[c].client
            IN /\ temps[t].pc = "none"
               /\ \A u \in TempIds : u < t => temps[u].pc # "none"
               /\ clientNative' = [clientNative EXCEPT ![k] = TRUE]
               /\ temps' = [temps EXCEPT ![t] =
                      [pc |-> "creating", op |-> op, client |-> k, result |-> ""]]
               /\ UNCHANGED opResp
    /\ UNCHANGED <<clusterVars, clientProducers, clientConsumers, clientReaders, clientClose,
                   scVars, startCalls, stopCalls, sinkVars, uiVars, producerIdCounter,
                   producers, consumers, readers, producerNative, readerNative, createCalls,
                   closeOps, adminCalls, issued, quit>>

\* a messages:send that enters its temporary producer into the producers Map
TempCreatedRegisters(t, ok) ==
    /\ temps[t].pc = "creating"
    /\ LET k == temps[t].client
           w == <<"temp", t>>
       IN IF ok
          THEN /\ temps' = [temps EXCEPT ![t].pc = "using"]
               /\ IF temps[t].op = "messages:send"
                  THEN /\ clientProducers' = [clientProducers EXCEPT ![k] = @ \cup {w}]
                       /\ producerIdCounter' = producerIdCounter + 1
                       /\ producers' = producers \cup {producerIdCounter'}
                       /\ UNCHANGED clientReaders
                  ELSE /\ clientReaders' = [clientReaders EXCEPT ![k] = @ \cup {w}]
                       /\ UNCHANGED <<clientProducers, producerIdCounter, producers>>
               /\ UNCHANGED opResp
          ELSE /\ temps' = [temps EXCEPT ![t].pc = "done", ![t].result = "error"]
               /\ opResp' = Reply(temps[t].op, "error", 0)
               /\ UNCHANGED <<clientProducers, clientReaders, producerIdCounter, producers>>
    /\ UNCHANGED <<clusterVars, clientNative, clientConsumers, clientClose, scVars,
                   startCalls, stopCalls, sinkVars, uiVars,
                   consumers, readers, producerNative, readerNative, createCalls, closeOps,
                   adminCalls, issued, quit>>

\* the create of the temporary wrapper settled: resolved -> it joins the
\* client's set and the send / the reads are awaited; rejected -> error
TempCreated(t, ok) ==
    /\ temps[t].pc = "creating"
    /\ LET k == temps[t].client
           w == <<"temp", t>>
       IN IF ok
          THEN /\ temps' = [temps EXCEPT ![t].pc = "using"]
               /\ IF temps[t].op = "messages:send"
                  THEN /\ clientProducers' = [clientProducers EXCEPT ![k] = @ \cup {w}]
                       /\ UNCHANGED clientReaders
                  ELSE /\ clientReaders' = [clientReaders EXCEPT ![k] = @ \cup {w}]
                       /\ UNCHANGED clientProducers
               /\ UNCHANGED opResp
          ELSE /\ temps' = [temps EXCEPT ![t].pc = "done", ![t].result = "error"]
               /\ opResp' = Reply(temps[t].op, "error", 0)
               /\ UNCHANGED <<clientProducers, clientReaders>>
    /\ UNCHANGED <<clusterVars, clientNative, clientConsumers, clientClose, scVars,
                   startCalls, stopCalls, sinkVars, uiVars, producerIdCounter, producers,
                   consumers, readers, producerNative, readerNative, createCalls, closeOps,
                   adminCalls, issued, quit>>

\* a handler that returns the error of a failed send / browse without
\* closing the temporary wrapper
TempUsedNoCleanup(t, ok) ==
    /\ temps[t].pc = "using"
    /\ temps[t].op = "messages:peek" => ok
    /\ IF ok
       THEN /\ temps' = [temps EXCEPT
                  ![t].pc = IF temps[t].op # "messages:peek" THEN "closing" ELSE "cleanup",
                  ![t].result = "ok"]
            /\ IF temps[t].op = "messages:send"
               THEN /\ producerNative' = CloseAll(producerNative, {<<"temp", t>>})
                    /\ UNCHANGED readerNative
               ELSE /\ readerNative' = CloseAll(readerNative, {<<"temp", t>>})
                    /\ UNCHANGED producerNative
            /\ UNCHANGED opResp
       ELSE /\ temps' = [temps EXCEPT ![t].pc = "done", ![t].result = "error"]
            /\ opResp' = Reply(temps[t].op, "error", 0)
            /\ UNCHANGED <<producerNative, readerNative>>
    /\ UNCHANGED <<clusterVars, clientVars, scVars, startCalls, stopCalls, sinkVars, uiVars,
                   producerIdCounter, producers, consumers, readers, createCalls, closeOps,
                   adminCalls, issued, quit>>

\* producer.send settled, or the reads are over (readNext_timeout returns
\* null on any error; ok = FALSE for browse: hasNext() throws): the handler
\* calls close() on the temporary wrapper. send and browse await it in the
\* try on success and with .catch() in their catch before rethrowing; peek
\* awaits it in its finally.
TempUsed(t, ok) ==
    /\ temps[t].pc = "using"
    /\ temps[t].op = "messages:peek" => ok
    /\ temps' = [temps EXCEPT
          ![t].pc = IF ok /\ temps[t].op # "messages:peek" THEN "closing" ELSE "cleanup",
          ![t].result = IF ok THEN "ok" ELSE "error"]
    /\ IF temps[t].op = "messages:send"
       THEN /\ producerNative' = CloseAll(producerNative, {<<"temp", t>>})
            /\ UNCHANGED readerNative
       ELSE /\ readerNative' = CloseAll(readerNative, {<<"temp", t>>})
            /\ UNCHANGED producerNative
    /\ UNCHANGED <<clusterVars, clientVars, scVars, callVars, sinkVars, uiVars,
                   producerIdCounter, producers, consumers, readers, createCalls, closeOps,
                   adminCalls, issued, quit>>

\* the close() of the temporary wrapper settled. In the try of send / browse
\* a rejection goes to the catch, which calls close() again; after the
\* catch's or the finally's close the handler returns its result.
TempClosed(t, ok) ==
    /\ temps[t].pc \in {"closing", "cleanup"}
    /\ LET w == <<"temp", t>>
           again == temps[t].pc = "closing" /\ ~ok
           settle(nat) == IF ok THEN SettleAll(nat, {w}) ELSE nat
           recall(nat) == IF again THEN CloseAll(nat, {w}) ELSE nat
       IN /\ IF temps[t].op = "messages:send"
             THEN /\ producerNative' = recall(settle(producerNative))
                  /\ UNCHANGED readerNative
             ELSE /\ readerNative' = recall(settle(readerNative))
                  /\ UNCHANGED producerNative
          /\ IF again
             THEN /\ temps' = [temps EXCEPT ![t].pc = "cleanup", ![t].result = "error"]
                  /\ UNCHANGED opResp
             ELSE /\ temps' = [temps EXCEPT ![t].pc = "done"]
                  /\ opResp' = Reply(temps[t].op, temps[t].result, 0)
    /\ UNCHANGED <<clusterVars, clientVars, scVars, startCalls, stopCalls, sinkVars, uiVars,
                   producerIdCounter, producers, consumers, readers, createCalls, closeOps,
                   adminCalls, issued, quit>>

\* ------------------------------------------------------------ before-quit

\* the entry a `for ... of map.entries()` visits next: the first one, in
\* insertion order, after the last one it visited. Ids and connectedAt grow
\* with every insertion, so they give the order. keys: the candidates
MinOf(keys) == CHOOSE x \in keys : \A y \in keys : x <= y

\* the handler is running synchronously: no other callback runs until it
\* reaches an await on a native operation
QuitRunning == quit.pc \in {"producers", "consumers", "streaming", "clusters", "callClose"}

\* the phase of the before-quit handler a position belongs to: 1 producers,
\* 2 consumers, 3 streaming consumers, 4 cluster connections, 5 returned
QuitPhase(pc) ==
    IF pc \in {"producers", "producerClose"} THEN 1
    ELSE IF pc \in {"consumers", "consumerClose"} THEN 2
    ELSE IF pc \in {"streaming", "join", "streamClose"} THEN 3
    ELSE IF pc \in {"clusters", "callClose", "cluster"} THEN 4
    ELSE IF pc = "done" THEN 5
    ELSE 0

\* a before-quit handler that starts with the cluster connections
QuitBeginClustersFirst ==
    /\ quit.pc = "idle"
    /\ quit' = [NoQuit EXCEPT !.pc = "clusters"]
    /\ UNCHANGED <<clusterVars, clientVars, scVars, callVars, sinkVars, uiVars, resVars,
                   issued>>

\* app.on('before-quit'): the handler is entered
QuitBegin ==
    /\ quit.pc = "idle"
    /\ quit' = [NoQuit EXCEPT !.pc = "producers"]
    /\ UNCHANGED <<clusterVars, clientVars, scVars, callVars, sinkVars, uiVars, resVars,
                   issued>>

\* for (const [id, producer] of producers.entries()): await producer.close()
\* on the next entry, or, at the end of the Map, producers.clear()
QuitProducers ==
    /\ quit.pc = "producers"
    /\ LET rest == {x \in producers : x > quit.last}
       IN IF rest # {}
          THEN /\ producerNative' = CloseAll(producerNative, {<<"id", MinOf(rest)>>})
               /\ quit' = [quit EXCEPT !.pc = "producerClose", !.cur = MinOf(rest),
                                       !.last = MinOf(rest)]
               /\ UNCHANGED producers
          ELSE /\ producers' = {}
               /\ quit' = [quit EXCEPT !.pc = "consumers", !.cur = 0, !.last = 0]
               /\ UNCHANGED producerNative
    /\ UNCHANGED <<clusterVars, clientVars, scVars, callVars, sinkVars, uiVars,
                   producerIdCounter, consumers, readers, readerNative, createCalls,
                   closeOps, temps, adminCalls, issued>>

\* the awaited producer.close() settled; a rejection is logged in the catch
QuitProducerSettled(ok) ==
    /\ quit.pc = "producerClose"
    /\ producerNative' = IF ok THEN SettleAll(producerNative, {<<"id", quit.cur>>})
                         ELSE producerNative
    /\ quit' = [quit EXCEPT !.pc = "producers"]
    /\ UNCHANGED <<clusterVars, clientVars, scVars, callVars, sinkVars, uiVars,
                   producerIdCounter, producers, consumers, readers, readerNative,
                   createCalls, closeOps, temps, adminCalls, issued>>

\* for (const [id, consumer] of consumers.entries()): await consumer.close()
\* on the next entry, or, at the end of the Map, consumers.clear()
QuitConsumers ==
    /\ quit.pc = "consumers"
    /\ LET rest == {x \in consumers : x > quit.last}
       IN IF rest # {}
          THEN /\ native' = CloseAll(native, {MinOf(rest)})
               /\ quit' = [quit EXCEPT !.pc = "consumerClose", !.cur = MinOf(rest),
                                       !.last = MinOf(rest)]
               /\ UNCHANGED consumers
          ELSE /\ consumers' = {}
               /\ quit' = [quit EXCEPT !.pc = "streaming", !.cur = 0, !.last = 0]
               /\ UNCHANGED native
    /\ UNCHANGED <<clusterVars, clientVars, consumerIdCounter, sc, streamingConsumers,
                   callVars, sinkVars, uiVars, producerIdCounter, producers, readers,
                   producerNative, readerNative, createCalls, closeOps, temps, adminCalls,
                   issued>>

\* the awaited consumer.close() settled; a rejection is logged in the catch
QuitConsumerSettled(ok) ==
    /\ quit.pc = "consumerClose"
    /\ native' = IF ok THEN SettleAll(native, {quit.cur}) ELSE native
    /\ quit' = [quit EXCEPT !.pc = "consumers"]
    /\ UNCHANGED <<clusterVars, clientVars, consumerIdCounter, sc, streamingConsumers,
                   callVars, sinkVars, uiVars, resVars, issued>>

\* for (const [id, streamingConsumer] of streamingConsumers.entries()):
\* stopRequested = true and await receiveLoop on the next entry (a loop
\* that has already ended resolves the await at once, and consumer.close()
\* is called), or, at the end of the Map, streamingConsumers.clear()
QuitStreaming ==
    /\ quit.pc = "streaming"
    /\ LET rest == {x \in streamingConsumers : x > quit.last}
       IN IF rest # {}
          THEN LET n == MinOf(rest)
               IN /\ sc' = [sc EXCEPT ![n].stopRequested = TRUE]
                  /\ native' = IF sc[n].pc = "done"
                               THEN [native EXCEPT ![n].closeCalls = @ + 1]
                               ELSE native
                  /\ quit' = [quit EXCEPT
                         !.pc = IF sc[n].pc = "done" THEN "streamClose" ELSE "join",
                         !.cur = n, !.last = n]
                  /\ UNCHANGED streamingConsumers
          ELSE /\ streamingConsumers' = {}
               /\ quit' = [quit EXCEPT !.pc = "clusters", !.cur = 0, !.last = 0]
               /\ UNCHANGED <<sc, native>>
    /\ UNCHANGED <<clusterVars, clientVars, consumerIdCounter, callVars, sinkVars, uiVars,
                   resVars, issued>>

\* the awaited receiveLoop resolved: await streamingConsumer.consumer.close()
QuitJoined ==
    /\ quit.pc = "join"
    /\ sc[quit.cur].pc = "done"
    /\ native' = [native EXCEPT ![quit.cur].closeCalls = @ + 1]
    /\ quit' = [quit EXCEPT !.pc = "streamClose"]
    /\ UNCHANGED <<clusterVars, clientVars, consumerIdCounter, sc, streamingConsumers,
                   callVars, sinkVars, uiVars, resVars, issued>>

\* the awaited close of the streaming consumer settled; a rejection is
\* logged in the catch
QuitStreamClosed(ok) ==
    /\ quit.pc = "streamClose"
    /\ native' = IF ok THEN SettleAll(native, {quit.cur}) ELSE native
    /\ quit' = [quit EXCEPT !.pc = "streaming"]
    /\ UNCHANGED <<clusterVars, clientVars, consumerIdCounter, sc, streamingConsumers,
                   callVars, sinkVars, uiVars, resVars, issued>>

\* for (const [clusterId, connection] of connectedClusters.entries()): the
\* next entry's connection.client.close() is called (d: the call), or, at
\* the end of the Map, connectedClusters.clear() and the handler returns
QuitClusters ==
    /\ quit.pc = "clusters"
    /\ LET rest == {c \in DOMAIN connectedClusters :
                       connectedClusters[c].connectedAt > quit.last}
       IN IF rest # {}
          THEN \E c \in rest, d \in CloseSlots :
                  /\ \A e \in rest : connectedClusters[c].connectedAt
                                          <= connectedClusters[e].connectedAt
                  /\ clientClose[d].pc = "idle"
                  /\ \A e \in CloseSlots : e < d => clientClose[e].pc # "idle"
                  /\ clientClose' = [clientClose EXCEPT ![d] =
                         [pc |-> "called", cluster |-> c,
                          client |-> connectedClusters[c].client, snap |-> {}]]
                  /\ quit' = [quit EXCEPT !.pc = "callClose", !.cluster = c, !.slot = d,
                                          !.last = connectedClusters[c].connectedAt]
                  /\ UNCHANGED connectedClusters
          ELSE /\ connectedClusters' = [c \in {} |-> connectedClusters[c]]
               /\ quit' = [quit EXCEPT !.pc = "done"]
               /\ UNCHANGED clientClose
    /\ UNCHANGED <<now, clusterResp, clientNative, clientProducers, clientConsumers,
                   clientReaders, scVars, callVars, sinkVars, uiVars, resVars, issued>>

\* PulsarMessageClient.close() of the cluster's client, up to the first
\* native operation it awaits
QuitCallClose ==
    /\ quit.pc = "callClose"
    /\ LET d == quit.slot
           k == clientClose[d].client
           P == clientProducers[k]
           C == clientConsumers[k]
           R == clientReaders[k]
       IN EnterPhase(d, quit.cluster, k, FirstPhase(1, P, C, R, clientNative[k]),
                     producerNative, native, readerNative, P, C, R)
    /\ UNCHANGED <<now, clientNative, clientProducers, clientConsumers, clientReaders,
                   consumerIdCounter, sc, streamingConsumers, callVars, sinkVars, uiVars,
                   producerIdCounter, producers, consumers, readers, createCalls,
                   closeOps, temps, adminCalls, issued>>

\* ----------------------------------------------------------- the window

\* mainWindow.on('closed'): mainWindow = null
WindowClosed ==
    /\ mainWindow
    /\ mainWindow' = FALSE
    /\ UNCHANGED <<clusterVars, clientVars, scVars, callVars, sinkVars, consumerStatus,
                   resVars, issued, quit>>

\* app.on('activate') with no window open: createWindow()
Activate ==
    /\ ~mainWindow
    /\ mainWindow' = TRUE
    /\ UNCHANGED <<clusterVars, clientVars, scVars, callVars, sinkVars, consumerStatus,
                   resVars, issued, quit>>

\* ------------------------------------------------------ specifications

\* the clusters the streaming specifications connect
StreamClusters == {"c1"}

\* the cluster registry on its own, over every cluster id; no resource is
\* created, so no client ever builds its native client and close() has
\* nothing to await
NextCluster ==
    \/ \E c \in Clusters, t \in BOOLEAN : Connect(c, t)
    \/ \E c \in Clusters, d \in DisconnectSlots : DisconnectBegin(c, d)
    \/ ListClusters

\* the streaming consumers of one cluster
NextStream ==
    \/ \E c \in StreamClusters, t \in BOOLEAN : Connect(c, t)
    \/ \E c \in StreamClusters, d \in DisconnectSlots : DisconnectBegin(c, d)
    \/ \E d \in CloseSlots, okSet \in SUBSET StreamIds : ClientCloseConsumersSettled(d, okSet)
    \/ \E d \in CloseSlots, ok \in BOOLEAN : ClientCloseNativeSettled(d, ok)
    \/ \E c \in StreamClusters :
          consumerIdCounter + PendingStarts < MaxStreamIds /\ StartConsumerBegin(c)
    \/ \E k \in ClientIds : StartConsumerSubscribed(k)
    \/ \E k \in ClientIds : StartConsumerFailed(k)
    \/ \E n \in StreamIds : PauseConsumer(n)
    \/ \E n \in StreamIds : handleResumeConsumer(n)
    \/ \E n \in StreamIds, gotMsg \in BOOLEAN : RecvReturn(n, gotMsg)
    \/ \E n \in StreamIds, ok \in BOOLEAN : AckReturn(n, ok)
    \/ \E n \in StreamIds : SleepReturn(n)
    \/ \E s \in StopSlots, n \in StreamIds : StopConsumerBegin(s, n)
    \/ \E s \in StopSlots : StopConsumerJoined(s)
    \/ \E s \in StopSlots, ok \in BOOLEAN : StopConsumerClosed(s, ok)

\* one iteration step of the loop of consumer n
LoopStep(n) ==
    \/ \E gotMsg \in BOOLEAN : RecvReturn(n, gotMsg)
    \/ \E ok \in BOOLEAN : AckReturn(n, ok)
    \/ SleepReturn(n)

\* one streaming consumer on a connected cluster, by the outcome of the
\* native receive
NextRecv ==
    \/ \E c \in StreamClusters : c \notin DOMAIN connectedClusters /\ Connect(c, FALSE)
    \/ \E c \in StreamClusters :
          consumerIdCounter + PendingStarts < MaxStreamIds /\ StartConsumerBegin(c)
    \/ \E k \in ClientIds : StartConsumerSubscribed(k)
    \/ \E k \in ClientIds : StartConsumerFailed(k)
    \/ \E n \in StreamIds : PauseConsumer(n)
    \/ \E n \in StreamIds : handleResumeConsumer(n)
    \/ \E n \in StreamIds, outcome \in RecvOutcomes : RecvSettled(n, outcome)
    \/ \E n \in StreamIds, ok \in BOOLEAN : AckReturn(n, ok)
    \/ \E n \in StreamIds : SleepReturn(n)
    \/ \E s \in StopSlots, n \in StreamIds : StopConsumerBegin(s, n)
    \/ \E s \in StopSlots : StopConsumerJoined(s)
    \/ \E s \in StopSlots, ok \in BOOLEAN : StopConsumerClosed(s, ok)

\* one streaming consumer, with the window closing and reopening
NextWindow ==
    \/ NextStream
    \/ WindowClosed
    \/ Activate

\* the streaming consumers of one connected cluster side by side
NextPair ==
    \/ \E c \in StreamClusters, t \in BOOLEAN : Connect(c, t)
    \/ \E c \in StreamClusters : StartConsumerBegin(c)
    \/ \E k \in ClientIds : StartConsumerSubscribed(k)
    \/ \E k \in ClientIds : StartConsumerFailed(k)
    \/ \E n \in Ids : PauseConsumer(n)
    \/ \E n \in Ids, gotMsg \in BOOLEAN : RecvReturn(n, gotMsg)
    \/ \E n \in Ids, ok \in BOOLEAN : AckReturn(n, ok)
    \/ \E n \in Ids : SleepReturn(n)
    \/ \E s \in StopSlots, n \in Ids : StopConsumerBegin(s, n)
    \/ \E s \in StopSlots : StopConsumerJoined(s)
    \/ \E s \in StopSlots, ok \in BOOLEAN : StopConsumerClosed(s, ok)

\* no resource handler is between its lookup and its return
Quiet ==
    /\ PendingStarts + PendingCreates("producer") + PendingCreates("consumer")
          + PendingCreates("reader") = 0
    /\ adminCalls.pending = 0
    /\ \A t \in TempIds : temps[t].pc \in {"none", "done"}
    /\ \A d \in CloseSlots : clientClose[d].pc = "idle"

\* every handler that looks a cluster up, called one after the other on one
\* cluster id that is connected once and disconnected; the streaming loops are
\* left out, a started consumer's receive staying outstanding
NextScoped ==
    \/ \E c \in StreamClusters :
          Quiet /\ now = 0 /\ Connect(c, FALSE)
    \/ \E c \in StreamClusters, d \in DisconnectSlots : Quiet /\ DisconnectBegin(c, d)
    \/ \E d \in CloseSlots : \E okSet \in {{}, clientClose[d].snap} :
          ClientCloseProducersSettled(d, okSet)
    \/ \E d \in CloseSlots : \E okSet \in {{}, clientClose[d].snap} :
          ClientCloseConsumersSettled(d, okSet)
    \/ \E d \in CloseSlots : \E okSet \in {{}, clientClose[d].snap} :
          ClientCloseReadersSettled(d, okSet)
    \/ \E d \in CloseSlots, ok \in BOOLEAN : ClientCloseNativeSettled(d, ok)
    \/ \E c \in StreamClusters : Quiet /\ AdminBegin(c)
    \/ \E r \in {"ok", "error", "again"} : AdminSettled(r)
    \/ \E kind \in Kinds, c \in StreamClusters : Quiet /\ CreateBegin(kind, c)
    \/ \E kind \in Kinds, k \in ClientIds : Created(kind, k)
    \/ \E kind \in Kinds, k \in ClientIds : CreateFailed(kind, k)
    \/ \E c \in StreamClusters : Quiet /\ StartConsumerBegin(c)
    \/ \E k \in ClientIds : StartConsumerSubscribed(k)
    \/ \E k \in ClientIds : StartConsumerFailed(k)
    \/ \E c \in StreamClusters, op \in TempOps, t \in TempIds : Quiet /\ TempBegin(c, op, t)
    \/ \E t \in TempIds, ok \in BOOLEAN : TempCreated(t, ok)
    \/ \E t \in TempIds, ok \in BOOLEAN : TempUsed(t, ok)
    \/ \E t \in TempIds, ok \in BOOLEAN : TempClosed(t, ok)

\* the resources that carry ids: created, closed and stopped on one cluster
\* that is connected once, with one messages:stopConsumer call
NextIds ==
    \/ \E c \in StreamClusters : c \notin DOMAIN connectedClusters /\ Connect(c, FALSE)
    \/ \E kind \in Kinds, c \in StreamClusters : CreateBegin(kind, c)
    \/ \E kind \in Kinds, k \in ClientIds : Created(kind, k)
    \/ \E kind \in Kinds, k \in ClientIds : CreateFailed(kind, k)
    \/ \E q \in CloseOpSlots, kind \in Kinds : \E id \in IdsOf(kind) : CloseBegin(q, kind, id)
    \/ \E q \in CloseOpSlots, ok \in BOOLEAN : CloseSettled(q, ok)
    \/ \E c \in StreamClusters : StartConsumerBegin(c)
    \/ \E k \in ClientIds : StartConsumerSubscribed(k)
    \/ \E k \in ClientIds : StartConsumerFailed(k)
    \/ \E n \in Ids : RecvReturn(n, FALSE)
    \/ \E n \in Ids : StopConsumerBegin(1, n)
    \/ \E s \in StopSlots : StopConsumerJoined(s)
    \/ \E s \in StopSlots, ok \in BOOLEAN : StopConsumerClosed(s, ok)

\* producers, one-shot consumers and readers created, used and closed on one
\* cluster that is connected once
NextUse ==
    \/ \E c \in StreamClusters : c \notin DOMAIN connectedClusters /\ Connect(c, FALSE)
    \/ \E kind \in Kinds, c \in StreamClusters : CreateBegin(kind, c)
    \/ \E kind \in Kinds, k \in ClientIds : Created(kind, k)
    \/ \E kind \in Kinds, k \in ClientIds : CreateFailed(kind, k)
    \/ \E q \in CloseOpSlots, kind \in Kinds : \E id \in IdsOf(kind) : CloseBegin(q, kind, id)
    \/ \E q \in CloseOpSlots, ok \in BOOLEAN : CloseSettled(q, ok)
    \/ \E q \in CloseOpSlots, kind \in Kinds : \E id \in IdsOf(kind) : UseBegin(q, kind, id)
    \/ \E q \in CloseOpSlots, ok \in BOOLEAN : UseSettled(q, ok)
    \/ \E id \in Ids : ConsumerAcknowledge(id)

\* the clusters of the specification with more than one connection
PairClusters == {"c1", "c2"}

\* resources of every kind created on two clusters, one call at a time, closed
\* by their handlers and by the disconnect of their cluster, the clusters
\* being connected again afterwards
NextHandles ==
    \/ \E c \in PairClusters : c \notin DOMAIN connectedClusters /\ Quiet /\ Connect(c, FALSE)
    \/ \E c \in PairClusters, d \in DisconnectSlots :
          c \in DOMAIN connectedClusters /\ Quiet /\ DisconnectBegin(c, d)
    \/ \E d \in CloseSlots : ClientCloseProducersSettled(d, clientClose[d].snap)
    \/ \E d \in CloseSlots : ClientCloseConsumersSettled(d, clientClose[d].snap)
    \/ \E d \in CloseSlots : ClientCloseReadersSettled(d, clientClose[d].snap)
    \/ \E d \in CloseSlots : ClientCloseNativeSettled(d, TRUE)
    \/ \E kind \in Kinds, c \in PairClusters :
          c \in DOMAIN connectedClusters /\ Quiet /\ CreateBegin(kind, c)
    \/ \E kind \in Kinds, k \in ClientIds : Created(kind, k)
    \/ \E kind \in Kinds : \E id \in IdsOf(kind) :
          id \in Registry(kind) /\ Quiet /\ CloseBegin(1, kind, id)
    \/ CloseSettled(1, TRUE)
    \/ \E c \in PairClusters : c \in DOMAIN connectedClusters /\ Quiet /\ StartConsumerBegin(c)
    \/ \E k \in ClientIds : StartConsumerSubscribed(k)

\* the app quits while producers, consumers, readers and a streaming
\* consumer of one cluster exist or are being created
NextQuit ==
    \/ ~QuitRunning /\ QuitBegin
    \/ QuitProducers
    \/ QuitConsumers
    \/ QuitStreaming
    \/ QuitClusters
    \/ QuitCallClose
    \/ \E ok \in BOOLEAN : QuitProducerSettled(ok)
    \/ \E ok \in BOOLEAN : QuitConsumerSettled(ok)
    \/ QuitJoined
    \/ \E ok \in BOOLEAN : QuitStreamClosed(ok)
    \/ \E c \in StreamClusters :
          ~QuitRunning /\ now = 0 /\ Connect(c, FALSE)
    \/ \E kind \in Kinds, c \in StreamClusters : ~QuitRunning /\ CreateBegin(kind, c)
    \/ \E kind \in Kinds, k \in ClientIds : ~QuitRunning /\ Created(kind, k)
    \/ \E kind \in Kinds, k \in ClientIds : ~QuitRunning /\ CreateFailed(kind, k)
    \/ \E c \in StreamClusters : ~QuitRunning /\ StartConsumerBegin(c)
    \/ \E k \in ClientIds : ~QuitRunning /\ StartConsumerSubscribed(k)
    \/ \E k \in ClientIds : ~QuitRunning /\ StartConsumerFailed(k)
    \/ \E n \in Ids : ~QuitRunning /\ RecvReturn(n, FALSE)
    \/ \E d \in CloseSlots : \E okSet \in {{}, clientClose[d].snap} :
          ClientCloseProducersSettled(d, okSet)
    \/ \E d \in CloseSlots : \E okSet \in {{}, clientClose[d].snap} :
          ClientCloseConsumersSettled(d, okSet)
    \/ \E d \in CloseSlots : \E okSet \in {{}, clientClose[d].snap} :
          ClientCloseReadersSettled(d, okSet)
    \/ \E d \in CloseSlots, ok \in BOOLEAN : ClientCloseNativeSettled(d, ok)

\* cluster:disconnect calls on one cluster that meet each other and the
\* before-quit handler while the close() of the cluster's client, which has
\* made a producer, is awaited
NextDisconnects ==
    \/ \E c \in StreamClusters : ~QuitRunning /\ now = 0 /\ Connect(c, FALSE)
    \/ \E c \in StreamClusters : ~QuitRunning /\ CreateBegin("producer", c)
    \/ \E k \in ClientIds : ~QuitRunning /\ Created("producer", k)
    \/ \E c \in StreamClusters, d \in CloseSlots : ~QuitRunning /\ DisconnectBegin(c, d)
    \/ \E d \in CloseSlots : ~QuitRunning /\ ClientCloseProducersSettled(d, clientClose[d].snap)
    \/ \E d \in CloseSlots, ok \in BOOLEAN : ~QuitRunning /\ ClientCloseNativeSettled(d, ok)
    \/ ~QuitRunning /\ QuitBegin
    \/ QuitProducers
    \/ QuitProducerSettled(TRUE)
    \/ QuitConsumers
    \/ QuitStreaming
    \/ QuitClusters
    \/ QuitCallClose

Next ==
    \/ NextQuit
    \/ /\ ~QuitRunning
       /\ \/ NextCluster
          \/ NextStream
          \/ NextScoped
          \/ NextIds
          \/ NextUse
          \/ NextHandles
          \/ NextDisconnects
          \/ NextRecv
          \/ WindowClosed
          \/ Activate

Spec == Init /\ [][Next]_vars
SpecScoped == Init /\ [][NextScoped]_vars
SpecHandles == Init /\ [][NextHandles]_vars
SpecDisconnects == Init /\ [][NextDisconnects]_vars
SpecQuit == Init /\ [][NextQuit]_vars
SpecRecv == Init /\ [][NextRecv]_vars
SpecUse == Init /\ [][NextUse]_vars
SpecIds == Init /\ [][NextIds]_vars
SpecWindow == Init /\ [][NextWindow]_vars
SpecPair == Init /\ [][NextPair]_vars
SpecCluster == Init /\ [][NextCluster]_vars
SpecStream == Init /\ [][NextStream]_vars

\* The event loop runs every task that is ready: a receive_timeout(1000)
\* settles, a 100 ms timer fires, a native acknowledge or close settles, and
\* the continuation of a resolved await is run.
FairStream ==
    /\ SpecStream
    /\ \A n \in Ids : WF_vars(LoopStep(n))
    /\ \A s \in StopSlots : WF_vars(StopConsumerJoined(s))
    /\ \A s \in StopSlots : WF_vars(\E ok \in BOOLEAN : StopConsumerClosed(s, ok))

\* ----------------------------------------------------------------- claims

\* C1: a cluster:connect call on a clusterId that is already in the registry
\* answers AlreadyConnected and leaves the registry as it was: the entry's
\* connectedAt and its client are not replaced.
C1_ConnectTwiceRejected ==
    [][\A c \in Clusters :
          (c \in DOMAIN connectedClusters /\ \E t \in BOOLEAN : Connect(c, t))
          => /\ clusterResp' = Envelope("connect", "AlreadyConnected")
             /\ connectedClusters' = connectedClusters
             /\ UNCHANGED clientVars]_vars

\* a second connect on a connected id was answered AlreadyConnected, and the
\* entry still carries the connectedAt of the first call
C1_Witness ==
    /\ clusterResp = Envelope("connect", "AlreadyConnected")
    /\ \E c \in DOMAIN connectedClusters : connectedClusters[c].connectedAt < now

\* C2: no streaming consumer ever has more than one receive outstanding on
\* its native consumer.
C2_AtMostOneReceiveInFlight ==
    \A n \in Ids : native[n].recvInFlight <= 1

\* the loop went round: a receive has returned a message and the next one is
\* outstanding
C2_Witness ==
    \E n \in Ids : native[n].recvInFlight = 1 /\ native[n].received >= 1

\* C3: a stopConsumer call past its first step has set stopRequested; it
\* calls close on the native consumer only once the loop has terminated; and
\* an id leaves the registry only in the step in which a stopConsumer call's
\* close resolves.
C3_StopOrder ==
    /\ [](\A s \in StopSlots :
            /\ stopCalls[s].pc \in {"join", "closing", "ok", "error"}
                  => sc[stopCalls[s].id].stopRequested
            /\ stopCalls[s].pc \in {"closing", "ok", "error"}
                  => sc[stopCalls[s].id].pc = "done")
    /\ [][\A n \in Ids :
            (n \in streamingConsumers /\ n \notin streamingConsumers')
            => \E s \in StopSlots :
                  /\ stopCalls[s] = [pc |-> "closing", id |-> n]
                  /\ stopCalls'[s].pc = "ok"
                  /\ native'[n].closed]_vars

\* a stopConsumer call ran to success on a consumer that had received
C3_Witness ==
    \E s \in StopSlots :
        /\ stopCalls[s].pc = "ok"
        /\ stopCalls[s].id \notin streamingConsumers
        /\ native[stopCalls[s].id].received >= 1

\* C4: close is never called on a native consumer while a receive on it is
\* outstanding, and none is outstanding once close has been called.
C4_NoCloseWhileReceiving ==
    \A n \in Ids : native[n].closeCalls > 0 => native[n].recvInFlight = 0

\* C5: a consumer the interface has resumed after a pause is Running again:
\* its paused flag is clear.
C5_ResumeReturnsToRunning ==
    \A n \in streamingConsumers : consumerStatus[n] = "running" => ~sc[n].paused

\* C6: while paused is set at most one message reaches the sink for the
\* consumer, and the loop issues no receive while paused is set.
C6_PauseStopsNewReceives ==
    /\ [](\A n \in Ids : pausedDeliveries[n] <= 1)
    /\ [][\A n \in Ids :
            native'[n].recvInFlight > native[n].recvInFlight => ~sc'[n].paused]_vars

\* the receive that was outstanding at the pause delivered its message, and
\* the loop is parked in its paused poll
C6_Witness ==
    \E n \in Ids : pausedDeliveries[n] = 1 /\ sc[n].paused /\ sc[n].pc = "pauseSleep"

\* a stopConsumer call on n has returned, with success or with an error
StopCompleted(n) ==
    \E s \in StopSlots : stopCalls[s].id = n /\ stopCalls[s].pc \in {"ok", "error"}

\* C7: once a stopConsumer call on an id has returned, no further
\* messages:received event carries that id.
C7_NoEventAfterStop ==
    [][\A n \in Ids : StopCompleted(n) => sink'[n] = sink[n]]_vars

\* stop returned for a consumer that had delivered, with messages still to
\* be handed out by the broker
C7_Witness ==
    \E n \in Ids : StopCompleted(n) /\ Len(sink[n]) >= 1 /\ TotalReceived < MaxMsgs

\* a stopConsumer call that is past its lookup and has not returned
StopPending(s) == stopCalls[s].pc \in {"join", "closing"}

\* C8: once stopRequested is set every step of the loop takes it to its
\* end, without a new receive, and every stopConsumer call on a registered
\* consumer returns.
C8_StopReturns ==
    /\ [][\A n \in Ids :
            (sc[n].stopRequested /\ sc'[n].pc # sc[n].pc)
            => (sc'[n].pc = "done" /\ native'[n].recvInFlight <= native[n].recvInFlight)]_vars
    /\ \A s \in StopSlots : StopPending(s) ~> stopCalls[s].pc \in {"ok", "error"}

\* a stopConsumer call returned for a consumer that was paused
C8_Witness ==
    \E s \in StopSlots :
        /\ stopCalls[s].pc \in {"ok", "error"}
        /\ sc[stopCalls[s].id].paused

\* C9: a stopConsumer call made after an earlier call on the same id returned
\* success answers NotFound and changes nothing else.
C9_SecondStopNotFound ==
    [][\A s \in StopSlots, n \in Ids :
          (/\ StopConsumerBegin(s, n)
           /\ \E t \in StopSlots : stopCalls[t] = [pc |-> "ok", id |-> n])
          => /\ stopCalls'[s] = [pc |-> "NotFound", id |-> n]
             /\ UNCHANGED <<clusterVars, clientVars, scVars, startCalls, sinkVars, uiVars>>]_vars

\* the second call on an id answered NotFound after the first had succeeded
C9_Witness ==
    \E s, t \in StopSlots :
        /\ t < s
        /\ stopCalls[t].pc = "ok"
        /\ stopCalls[s] = [pc |-> "NotFound", id |-> stopCalls[t].id]

\* C10: when a stopConsumer call has returned, with success or with an
\* error, the native consumer is closed and the id is out of the registry.
C10_StoppedIsClosedAndRemoved ==
    \A s \in StopSlots :
        stopCalls[s].pc \in {"ok", "error"}
        => /\ native[stopCalls[s].id].closed
           /\ stopCalls[s].id \notin streamingConsumers

\* C11: the messages:received events of a consumer carry its received
\* messages in the order the receive calls returned them: an event is sent
\* in the step in which its message is returned, behind the events already
\* sent, so the events are an increasing selection of the received messages.
C11_SinkInReceiveOrder ==
    /\ [](\A n \in Ids :
            /\ \A i \in 1..Len(sink[n]) : sink[n][i] \in 1..native[n].received
            /\ \A i, j \in 1..Len(sink[n]) : i < j => sink[n][i] < sink[n][j])
    /\ [][\A n \in Ids :
            sink'[n] # sink[n]
            => /\ native'[n].received = native[n].received + 1
               /\ sink'[n] = Append(sink[n], native'[n].received)]_vars

\* two messages were received and sent on, the first before the second
C11_Witness ==
    \E n \in Ids : sink[n] = <<1, 2>>

\* C12: an event is sent only when stop has not been requested and the
\* window exists; the loop awaits an acknowledge only in a step that sent
\* the event, and the message being acknowledged is the last one sent.
C12_AckOnlyAfterPush ==
    /\ [][\A n \in Ids :
            /\ sink'[n] # sink[n] => (~sc[n].stopRequested /\ mainWindow)
            /\ (sc'[n].pc = "ack" /\ sc[n].pc # "ack") => sink'[n] # sink[n]]_vars
    /\ [](\A n \in Ids :
            sc[n].pc = "ack"
            => /\ Len(sink[n]) > 0
               /\ sink[n][Len(sink[n])] = native[n].received)

\* the first message arrived with no window and was neither sent nor
\* acknowledged; the second was sent and its acknowledge is awaited
C12_Witness ==
    \E n \in Ids : sc[n].pc = "ack" /\ sink[n] = <<2>>

\* C13: a rejected acknowledge sends the loop to its backoff, not to its
\* end, unless stop was requested; the loop ends only after a stop request;
\* and from the backoff the loop goes on to its next iteration.
C13_AckFailureKeepsLoop ==
    /\ [][\A n \in Ids :
            (AckReturn(n, FALSE) /\ ~sc[n].stopRequested) => sc'[n].pc = "backoff"]_vars
    /\ [](\A n \in Ids : sc[n].pc = "done" => sc[n].stopRequested)
    /\ \A n \in Ids :
            (sc[n].pc = "backoff") ~> (sc[n].pc \in {"recv", "pauseSleep", "done"})

\* the acknowledge of the first message was rejected and the second
\* message has been sent to the window all the same
C13_Witness ==
    \E n \in Ids : ackFailed[n] /\ sc[n].pc = "ack" /\ sink[n] = <<1, 2>>

\* C14: a step in which a receive of consumer n returns nothing (timeout or
\* native error) or an acknowledge of n is rejected leaves every other
\* consumer's flags, loop position, native consumer, events and registry
\* entry as they were, and leaves the loop of n in its backoff, at its next
\* await, or regularly ended.
C14_LoopErrorStaysInLoop ==
    [][\A n \in Ids :
          (AckReturn(n, FALSE) \/ RecvReturn(n, FALSE))
          => /\ \A m \in Ids \ {n} :
                    (sc'[m] = sc[m] /\ native'[m] = native[m] /\ sink'[m] = sink[m])
             /\ streamingConsumers' = streamingConsumers
             /\ sc'[n].pc \in {"backoff", "recv", "pauseSleep", "done"}
             /\ sc'[n].pc = "done" => sc[n].stopRequested]_vars

\* an acknowledge of one consumer was rejected while another consumer,
\* not asked to stop, has its own acknowledge under way
C14_Witness ==
    \E n, m \in Ids :
        /\ n # m
        /\ ackFailed[n]
        /\ sc[m].pc = "ack" /\ ~sc[m].stopRequested /\ ~ackFailed[m]

\* C15: a startConsumer call whose subscribe is rejected returns an error,
\* issues no further subscribe, registers nothing, starts no loop and leaves
\* the counter alone; one whose subscribe resolves registers the next id
\* with paused and stopRequested clear and its loop in its first receive.
C15_SubscribeFailure ==
    [][\A k \in ClientIds :
          startCalls'[k] < startCalls[k]
          => IF opResp'.res = "error"
             THEN /\ UNCHANGED <<consumerIdCounter, sc, streamingConsumers, native,
                                 clientConsumers>>
                  /\ startCalls'[k] = startCalls[k] - 1
                  /\ \A j \in ClientIds \ {k} : startCalls'[j] = startCalls[j]
             ELSE /\ opResp' = Reply("startConsumer", "ok", consumerIdCounter + 1)
                  /\ consumerIdCounter' = consumerIdCounter + 1
                  /\ streamingConsumers' = streamingConsumers \cup {consumerIdCounter'}
                  /\ ~sc'[consumerIdCounter'].paused
                  /\ ~sc'[consumerIdCounter'].stopRequested
                  /\ sc'[consumerIdCounter'].pc = "recv"]_vars

\* a subscribe was attempted on the cluster's client and failed: the call
\* answered an error, nothing is pending, no id was taken, nothing registered
C15_Witness ==
    /\ opResp = Reply("startConsumer", "error", 0)
    /\ \E k \in ClientIds : clientNative[k]
    /\ PendingStarts = 0
    /\ consumerIdCounter = 0
    /\ streamingConsumers = {}

\* a cluster:disconnect call on c is awaiting client.close()
CloseInProgress(c) ==
    \E d \in CloseSlots : clientClose[d].pc # "idle" /\ clientClose[d].cluster = c

\* C16: while a cluster:disconnect call is closing a cluster's client, a
\* messages:startConsumer call that looks the cluster up does not find it:
\* it issues no subscribe on the client that is being closed.
C16_ClosingClusterNotObserved ==
    [][\A c \in Clusters :
          (CloseInProgress(c) /\ StartConsumerBegin(c))
          => UNCHANGED <<startCalls, clientNative>>]_vars

\* C17: cluster:disconnect and every handler that takes a clusterId (the
\* admin handlers, producer:create, consumer:create, messages:browseMessages,
\* messages:startConsumer, messages:send, messages:browse, messages:peek),
\* called with a clusterId that is not in connectedClusters, answers the
\* "not connected" error, makes no call on the admin or the messaging client
\* and leaves every Map and both counters as they were.
C17_NotConnected ==
    [][\A c \in StreamClusters :
          c \notin DOMAIN connectedClusters =>
             /\ (\E d \in CloseSlots : DisconnectBegin(c, d)) =>
                   (/\ clusterResp' = Envelope("disconnect", "NotConnected")
                    /\ UNCHANGED <<now, connectedClusters, clientVars, scVars, callVars,
                                   sinkVars, uiVars, resVars, issued, quit>>)
             /\ AdminBegin(c) =>
                   (/\ opResp' = Reply("admin", "NotConnected", 0)
                    /\ UNCHANGED <<clusterVars, clientVars, scVars, startCalls, stopCalls,
                                   sinkVars, uiVars, resVars, issued, quit>>)
             /\ \A kind \in Kinds :
                   CreateBegin(kind, c) =>
                      (/\ opResp' = Reply(CreateOp(kind), "NotConnected", 0)
                       /\ UNCHANGED <<clusterVars, clientVars, scVars, startCalls,
                                      stopCalls, sinkVars, uiVars, resVars, issued, quit>>)
             /\ StartConsumerBegin(c) =>
                   (/\ opResp' = Reply("startConsumer", "NotConnected", 0)
                    /\ UNCHANGED <<clusterVars, clientVars, scVars, startCalls, stopCalls,
                                   sinkVars, uiVars, resVars, issued, quit>>)
             /\ \A op \in TempOps, t \in TempIds :
                   TempBegin(c, op, t) =>
                      (/\ opResp' = Reply(op, "NotConnected", 0)
                       /\ UNCHANGED <<clusterVars, clientVars, scVars, startCalls,
                                      stopCalls, sinkVars, uiVars, resVars, issued, quit>>)]_vars

\* a producer was created on the cluster, the cluster was disconnected, and
\* producer:create on its id was then answered "not connected"
C17_Witness ==
    /\ DOMAIN connectedClusters = {}
    /\ now = 1
    /\ producerIdCounter = 1
    /\ adminCalls.made > 0
    /\ opResp = Reply(CreateOp("producer"), "NotConnected", 0)

\* C18: producer:close, consumer:close, messages:closeReader and
\* messages:stopConsumer called with an id that no create of the same kind
\* ever returned answer "not found" and do nothing else: close() is called on
\* no wrapper, and no Map, counter or loop flag changes.
C18_CloseUnknownIdNotFound ==
    [][/\ \A q \in CloseOpSlots, kind \in Kinds : \A id \in IdsOf(kind) :
             ([kind |-> kind, id |-> id] \notin BagToSet(issued) /\ CloseBegin(q, kind, id))
             => (/\ opResp' = Reply(CloseOp(kind), "NotFound", id)
                 /\ UNCHANGED <<clusterVars, clientVars, scVars, startCalls, stopCalls,
                                sinkVars, uiVars, resVars, issued, quit>>)
       /\ \A st \in StopSlots, n \in Ids :
             ([kind |-> "streaming_consumer", id |-> n] \notin BagToSet(issued)
                 /\ StopConsumerBegin(st, n))
             => (/\ stopCalls'[st] = [pc |-> "NotFound", id |-> n]
                 /\ \A t \in StopSlots \ {st} : stopCalls'[t] = stopCalls[t]
                 /\ UNCHANGED <<clusterVars, clientVars, scVars, startCalls, opResp,
                                sinkVars, uiVars, resVars, issued, quit>>)]_vars

\* a one-shot consumer got id 1; messages:closeReader with 2, an id no reader
\* was given, was answered "not found", and messages:stopConsumer with 2 too
C18_Witness ==
    /\ consumers = {1}
    /\ BagToSet(issued) = {[kind |-> "consumer", id |-> 1]}
    /\ opResp = Reply(CloseOp("reader"), "NotFound", 2)
    /\ stopCalls[1] = [pc |-> "NotFound", id |-> 2]

\* C19: over every sequence of creates and closes of producers, one-shot
\* consumers, streaming consumers and readers no id is returned twice: a
\* successful create returns its counter's next value, the counters only
\* grow, and the id of a closed resource is not given to another one.
C19_IdsNeverReused ==
    /\ [](\A x \in BagToSet(issued) : CopiesIn(x, issued) = 1)
    /\ [][/\ producerIdCounter' >= producerIdCounter
          /\ consumerIdCounter' >= consumerIdCounter
          /\ issued' # issued =>
                \E x \in BagToSet(issued') :
                   /\ issued' = issued (+) SetToBag({x})
                   /\ IF x.kind = "producer"
                      THEN /\ x.id = producerIdCounter + 1
                           /\ producerIdCounter' = x.id
                           /\ consumerIdCounter' = consumerIdCounter
                      ELSE /\ x.id = consumerIdCounter + 1
                           /\ consumerIdCounter' = x.id
                           /\ producerIdCounter' = producerIdCounter]_vars

\* consumer:create returned 1, consumer:close removed it, and the next
\* consumer:create returned 2
C19_Witness ==
    /\ consumers = {2}
    /\ [kind |-> "consumer", id |-> 1] \in BagToSet(issued)
    /\ opResp = Reply(CreateOp("consumer"), "ok", 2)

\* C20: when the wrapper's close() rejects in producer:close, consumer:close
\* or messages:closeReader, the handler answers the error and the id is no
\* longer in its Map, so that a later call with the id finds nothing.
C20_FailedCloseStillRemoves ==
    [][\A q \in CloseOpSlots :
          (closeOps[q].pc = "closing" /\ CloseSettled(q, FALSE))
          => LET kind == closeOps[q].kind
                 id == closeOps[q].id
             IN /\ opResp' = Reply(CloseOp(kind), "error", id)
                /\ id \notin (IF kind = "producer" THEN producers'
                              ELSE IF kind = "consumer" THEN consumers'
                              ELSE readers')]_vars

\* C21: producer:send, consumer:receive, messages:readMessages and the three
\* close handlers look the id up in their Map on every call: for an id that
\* is not in it (never created, or closed) they answer "not found" and call
\* no method of a wrapper.
C21_MissingIdNotForwarded ==
    [][\A q \in CloseOpSlots, kind \in Kinds : \A id \in IdsOf(kind) :
          id \notin Registry(kind) =>
             /\ UseBegin(q, kind, id) =>
                   (/\ opResp' = Reply(UseOp(kind), "NotFound", id)
                    /\ UNCHANGED <<clusterVars, clientVars, scVars, startCalls, stopCalls,
                                   sinkVars, uiVars, resVars, issued, quit>>)
             /\ CloseBegin(q, kind, id) =>
                   (/\ opResp' = Reply(CloseOp(kind), "NotFound", id)
                    /\ UNCHANGED <<clusterVars, clientVars, scVars, startCalls, stopCalls,
                                   sinkVars, uiVars, resVars, issued, quit>>)]_vars

\* consumer_1 was created and closed, and consumer:receive on it was then
\* answered "not found"
C21_Witness ==
    /\ [kind |-> "consumer", id |-> 1] \in BagToSet(issued)
    /\ native[1].closed
    /\ 1 \notin consumers
    /\ opResp = Reply(UseOp("consumer"), "NotFound", 1)

\* C24: while PulsarMessageClient.close() awaits the native client's close,
\* close() has been called on every producer, consumer and reader made
\* through that client, those made while close() was running included.
C24_NativeCloseAfterEveryMember ==
    \A d \in CloseSlots :
       clientClose[d].pc = "native" =>
          LET k == clientClose[d].client
          IN /\ \A n \in Ids : (sc[n].pc # "none" /\ sc[n].client = k)
                                  => native[n].closeCalls > 0
             /\ \A w \in clientProducers[k] : producerNative[w].closeCalls > 0
             /\ \A n \in clientConsumers[k] : native[n].closeCalls > 0
             /\ \A w \in clientReaders[k] : readerNative[w].closeCalls > 0

\* C28: once stopRequested is set for a streaming consumer its loop starts
\* no receive: whether the flag was set during the paused poll, the backoff,
\* a receive or an acknowledge, the loop's next step ends the loop.
C28_NoReceiveAfterStop ==
    [][\A n \in StreamIds :
          sc[n].stopRequested =>
             /\ native'[n].recvInFlight <= native[n].recvInFlight
             /\ sc'[n].pc = "recv" => sc[n].pc = "recv"
             /\ LoopStep(n) => sc'[n].pc = "done"]_vars

\* the loop was in its backoff after a failed acknowledge, stop was
\* requested, and the loop ended with no receive outstanding
C28_Witness ==
    \E n \in StreamIds :
       /\ sc[n].stopRequested
       /\ sc[n].pc = "done"
       /\ ackFailed[n]
       /\ native[n].recvInFlight = 0
       /\ native[n].closeCalls = 0

\* C30: a message that receive returns while mainWindow is null, or after
\* stopRequested was set, is not sent to the renderer and not acknowledged:
\* the loop goes to the head of its next iteration.
C30_UndeliverableDropped ==
    [][\A n \in StreamIds :
          (sc[n].pc = "recv" /\ RecvReturn(n, TRUE)
              /\ (~mainWindow \/ sc[n].stopRequested))
          => /\ sink'[n] = sink[n]
             /\ sc'[n].pc # "ack"
             /\ sc'[n].pc = LoopTop(sc[n])
             /\ ackFailed' = ackFailed]_vars

\* with the window closed a message was received and not sent, and the loop
\* is in its next receive
C30_Witness ==
    \E n \in StreamIds :
       /\ ~mainWindow
       /\ native[n].received = 1
       /\ sink[n] = <<>>
       /\ sc[n].pc = "recv"
       /\ ~sc[n].stopRequested

\* C29: when the loop's receive fails with an error that is not a timeout,
\* the loop sleeps its backoff before the next receive; a timeout takes it
\* straight back to the head of the loop.
C29_ReceiveErrorBacksOff ==
    [][\A n \in StreamIds :
          (sc[n].pc = "recv" /\ ~sc[n].stopRequested)
          => /\ RecvSettled(n, "error") => sc'[n].pc = "backoff"
             /\ RecvSettled(n, "timeout") => sc'[n].pc = LoopTop(sc[n])]_vars

\* C26: messages:browse and messages:peek close the reader they created on
\* every path: when the reader was created, close() has been called on it by
\* the time the handler returns, whether the reads gave messages, timed out
\* or failed.
C26_TempReaderClosed ==
    /\ [](\A t \in TempIds :
             (temps[t].op \in {"messages:browse", "messages:peek"}
                 /\ temps[t].pc \in {"closing", "cleanup"})
             => readerNative[<<"temp", t>>].closeCalls > 0)
    /\ [][\A t \in TempIds :
             (temps[t].op \in {"messages:browse", "messages:peek"}
                 /\ temps[t].pc \in {"using", "closing", "cleanup"}
                 /\ temps'[t].pc = "done")
             => readerNative'[<<"temp", t>>].closeCalls > 0]_vars

\* messages:browse created its reader, hasNext() threw, the catch closed the
\* reader and the handler answered the error
C26_Witness ==
    \E t \in TempIds :
       /\ temps[t].op = "messages:browse"
       /\ temps[t].pc = "done"
       /\ temps[t].result = "error"
       /\ readerNative[<<"temp", t>>].closeCalls = 1
       /\ opResp = Reply("messages:browse", "error", 0)

\* C27: every handler answers an envelope for every outcome: when a call on
\* the admin client, the messaging client or a native handle fails, the
\* handler that awaited it returns {success: false, error} and does not
\* reject.
C27_AlwaysEnvelope ==
    /\ [](/\ opResp.res \in {"none", "ok", "error", "NotConnected", "NotFound"}
          /\ clusterResp.res \in {"none", "ok", "error", "NotConnected",
                                  "AlreadyConnected"})
    /\ [][/\ \A kind \in Kinds, k \in ClientIds :
                createCalls'[kind][k] < createCalls[kind][k]
                => (opResp'.op = CreateOp(kind) /\ opResp'.res \in {"ok", "error"})
          /\ \A k \in ClientIds :
                startCalls'[k] < startCalls[k]
                => (opResp'.op = "startConsumer" /\ opResp'.res \in {"ok", "error"})
          /\ adminCalls'.pending < adminCalls.pending
                => (opResp'.op = "admin" /\ opResp'.res \in {"ok", "error"})
          /\ \A t \in TempIds :
                (temps[t].pc # "done" /\ temps'[t].pc = "done")
                => (opResp'.op = temps[t].op /\ opResp'.res \in {"ok", "error"})
          /\ \A d \in CloseSlots :
                (clientClose[d].pc # "idle" /\ clientClose'[d].pc = "idle")
                => (clusterResp'.op = "disconnect"
                       /\ clusterResp'.res \in {"ok", "error"})]_vars

\* the native client's close rejected in cluster:disconnect and a call on
\* the admin client rejected: both handlers answered an error envelope
C27_Witness ==
    /\ clusterResp = Envelope("disconnect", "error")
    /\ opResp = Reply("admin", "error", 0)

\* C22: before-quit goes through its four phases in order: the producers,
\* the one-shot consumers, the streaming consumers (each one signalled and
\* its loop joined before its close), the cluster connections. A phase
\* begins only when the one before it has gone through its Map and cleared
\* it.
C22_TeardownOrder ==
    [][/\ QuitPhase(quit'.pc) \in {QuitPhase(quit.pc), QuitPhase(quit.pc) + 1}
       /\ (QuitPhase(quit.pc) = 1 /\ QuitPhase(quit'.pc) = 2)
             => (quit.pc = "producers" /\ producers' = {})
       /\ (QuitPhase(quit.pc) = 2 /\ QuitPhase(quit'.pc) = 3)
             => (quit.pc = "consumers" /\ consumers' = {})
       /\ (QuitPhase(quit.pc) = 3 /\ QuitPhase(quit'.pc) = 4)
             => (quit.pc = "streaming" /\ streamingConsumers' = {})
       /\ (QuitPhase(quit.pc) = 4 /\ QuitPhase(quit'.pc) = 5)
             => (quit.pc = "clusters" /\ DOMAIN connectedClusters' = {})
       /\ (quit.pc # "streamClose" /\ quit'.pc = "streamClose")
             => (/\ sc'[quit'.cur].stopRequested
                 /\ sc'[quit'.cur].pc = "done"
                 /\ native'[quit'.cur].closeCalls = native[quit'.cur].closeCalls + 1)]_vars

\* the handler returned after it closed producer_1, a one-shot consumer and
\* a streaming consumer whose loop had ended, and the cluster's client
C22_Witness ==
    /\ quit.pc = "done"
    /\ producerNative[<<"id", 1>>].closed
    /\ \E n \in Ids : sc[n].pc = "done" /\ native[n].closed
    /\ \E n \in Ids : [kind |-> "consumer", id |-> n] \in BagToSet(issued) /\ native[n].closed
    /\ \A k \in ClientIds : ~clientNative[k]

\* C23: when before-quit calls close() on a cluster's client, no producer,
\* consumer or reader made through that client is still in the producers,
\* consumers, streamingConsumers or readers Map.
C23_NoHandleAtClusterClose ==
    quit.pc = "callClose" =>
       LET k == clientClose[quit.slot].client
       IN /\ \A x \in producers : <<"id", x>> \notin clientProducers[k]
          /\ \A x \in consumers \cup streamingConsumers : x \notin clientConsumers[k]
          /\ \A x \in readers : <<"id", x>> \notin clientReaders[k]

\* C25: before-quit goes on after a close that failed, and when it returns
\* the producers, consumers, streamingConsumers, readers and
\* connectedClusters Maps are all empty.
C25_TeardownEndsEmpty ==
    [][(quit.pc # "done" /\ quit'.pc = "done")
          => /\ producers' = {}
             /\ consumers' = {}
             /\ streamingConsumers' = {}
             /\ readers' = {}
             /\ DOMAIN connectedClusters' = {}]_vars

\* C31: cluster:disconnect changes only the cluster registry. In every step
\* of a cluster:disconnect call (its lookup, each phase of the client's
\* close() it awaits, its return) the producers, consumers, readers and
\* streamingConsumers Maps, the paused and stopRequested flags of every
\* streaming consumer and both id counters stay as they were, also when the
\* resources were created from the cluster that is disconnected.
C31_DisconnectFrame ==
    [][(\/ clientClose' # clientClose
        \/ (clusterResp' # clusterResp /\ clusterResp'.op = "disconnect"))
       => /\ UNCHANGED <<producers, consumers, readers, streamingConsumers,
                         consumerIdCounter, producerIdCounter>>
          /\ \A n \in Ids : /\ sc'[n].paused = sc[n].paused
                            /\ sc'[n].stopRequested = sc[n].stopRequested]_vars

\* the cluster was disconnected with success while a producer and a
\* streaming consumer made from it were registered: both still are
C31_Witness ==
    /\ clusterResp = Envelope("disconnect", "ok")
    /\ DOMAIN connectedClusters = {}
    /\ producers # {}
    /\ \E n \in streamingConsumers : ~sc[n].stopRequested /\ native[n].closeCalls > 0

\* C32: producer:close, consumer:close and messages:closeReader keep the id
\* in its Map until the wrapper's close() has resolved and delete it only
\* then: an id leaves its Map only in the step in which a close call on it
\* resolves, and while a close call on an id is awaiting a close() that has
\* not resolved the id is registered, so that a producer:send,
\* consumer:receive or messages:readMessages on the same id made meanwhile
\* finds the entry and is forwarded to the wrapper.
C32_EntryKeptUntilClosed ==
    /\ [](\A q \in CloseOpSlots :
             (closeOps[q].pc = "closing"
                 /\ ~NativeOf(closeOps[q].kind, closeOps[q].id).closed)
             => closeOps[q].id \in Registry(closeOps[q].kind))
    /\ [][/\ \A id \in ProducerIds :
                (id \in producers /\ id \notin producers')
                => (/\ producerNative'[<<"id", id>>].closed
                    /\ \E q \in CloseOpSlots :
                          /\ closeOps[q] = [pc |-> "closing", kind |-> "producer", id |-> id]
                          /\ closeOps'[q].pc = "idle")
          /\ \A id \in Ids :
                (id \in consumers /\ id \notin consumers')
                => (/\ native'[id].closed
                    /\ \E q \in CloseOpSlots :
                          /\ closeOps[q] = [pc |-> "closing", kind |-> "consumer", id |-> id]
                          /\ closeOps'[q].pc = "idle")
          /\ \A id \in Ids :
                (id \in readers /\ id \notin readers')
                => (/\ readerNative'[<<"id", id>>].closed
                    /\ \E q \in CloseOpSlots :
                          /\ closeOps[q] = [pc |-> "closing", kind |-> "reader", id |-> id]
                          /\ closeOps'[q].pc = "idle")
          /\ \A q, r \in CloseOpSlots :
                (/\ closeOps[q].pc = "closing"
                 /\ ~NativeOf(closeOps[q].kind, closeOps[q].id).closed
                 /\ closeOps[r].pc = "idle"
                 /\ closeOps'[r].pc = "using"
                 /\ closeOps'[r].kind = closeOps[q].kind
                 /\ closeOps'[r].id = closeOps[q].id)
                => (closeOps'[r].id \in Registry(closeOps[q].kind) /\ UNCHANGED opResp)]_vars

\* a producer:close is awaiting producer.close() and a producer:send on the
\* same id, made meanwhile, found the producer and awaits its send
C32_Witness ==
    \E q, r \in CloseOpSlots :
       /\ q < r
       /\ closeOps[q] = [pc |-> "closing", kind |-> "producer", id |-> 1]
       /\ closeOps[r] = [pc |-> "using", kind |-> "producer", id |-> 1]
       /\ 1 \in producers
       /\ producerNative[<<"id", 1>>].closeCalls = 1
       /\ ~producerNative[<<"id", 1>>].closed

\* C33: in messages:browse and messages:peek a failure of the reader's
\* close() never replaces the outcome of the reads: from the moment the
\* handler calls close() on its reader, the outcome it holds (the messages
\* read, or the read error) stays what it was whether close() resolves or
\* rejects, and it is what the handler answers.
C33_CloseFailureKeepsOutcome ==
    [][\A t \in TempIds :
          (temps[t].op \in {"messages:browse", "messages:peek"}
              /\ temps[t].pc \in {"closing", "cleanup"})
          => /\ temps'[t].result = temps[t].result
             /\ temps'[t].pc = "done"
                   => opResp' = Reply(temps[t].op, temps[t].result, 0)]_vars

\* C34: no native handle is referenced from two registries and every create
\* inserts a fresh handle under a fresh id into exactly one Map. The native
\* consumers are the only handles two Maps could share (consumers and
\* streamingConsumers): no id number is in both; two connected clusters
\* never hold the same client, and no wrapper is a member of two clients. A
\* step enters at most one new key into at most one of the five Maps, the
\* key was never handed out before, and the handle stored under it is new
\* (no close() was ever called on it).
C34_HandlesNotShared ==
    /\ [](/\ consumers \cap streamingConsumers = {}
          /\ \A c, e \in DOMAIN connectedClusters :
                c # e => connectedClusters[c].client # connectedClusters[e].client
          /\ \A k, j \in ClientIds :
                k # j => /\ clientProducers[k] \cap clientProducers[j] = {}
                         /\ clientConsumers[k] \cap clientConsumers[j] = {}
                         /\ clientReaders[k] \cap clientReaders[j] = {})
    /\ [][LET newP == producers' \ producers
              newC == consumers' \ consumers
              newR == readers' \ readers
              newS == streamingConsumers' \ streamingConsumers
              newK == DOMAIN connectedClusters' \ DOMAIN connectedClusters
          IN /\ Cardinality(newP) + Cardinality(newC) + Cardinality(newR)
                   + Cardinality(newS) + Cardinality(newK) <= 1
             /\ \A id \in newP :
                   /\ [kind |-> "producer", id |-> id] \notin BagToSet(issued)
                   /\ producerNative'[<<"id", id>>] = NoWrapper
             /\ \A id \in newC :
                   /\ [kind |-> "consumer", id |-> id] \notin BagToSet(issued)
                   /\ native'[id].closeCalls = 0 /\ ~native'[id].closed
             /\ \A id \in newR :
                   /\ [kind |-> "reader", id |-> id] \notin BagToSet(issued)
                   /\ readerNative'[<<"id", id>>] = NoWrapper
             /\ \A id \in newS :
                   /\ [kind |-> "streaming_consumer", id |-> id] \notin BagToSet(issued)
                   /\ native'[id].closeCalls = 0 /\ ~native'[id].closed
             /\ \A c \in newK :
                   \A e \in DOMAIN connectedClusters :
                      connectedClusters'[c].client # connectedClusters[e].client]_vars

\* two clusters are connected, a one-shot consumer of the one and a
\* streaming consumer of the other are registered, each under its own id
C34_Witness ==
    /\ DOMAIN connectedClusters = PairClusters
    /\ \E n \in consumers, m \in streamingConsumers, k, j \in ClientIds :
          /\ n # m
          /\ k # j
          /\ n \in clientConsumers[k]
          /\ m \in clientConsumers[j]

\* C35: messages:send closes its temporary producer on every path: once
\* createProducer has resolved, close() has been called on the producer by
\* the time the handler returns, whether producer.send resolved or rejected;
\* and no step of the handler enters anything into the producers Map or
\* takes an id from producerIdCounter.
C35_TempProducerClosed ==
    /\ [](\A t \in TempIds :
             (temps[t].op = "messages:send" /\ temps[t].pc \in {"closing", "cleanup"})
             => producerNative[<<"temp", t>>].closeCalls > 0)
    /\ [][\A t \in TempIds :
             /\ (temps[t].op = "messages:send"
                    /\ temps[t].pc \in {"using", "closing", "cleanup"}
                    /\ temps'[t].pc = "done")
                => producerNative'[<<"temp", t>>].closeCalls > 0
             /\ (temps'[t] # temps[t] /\ temps'[t].op = "messages:send")
                => UNCHANGED <<producers, producerIdCounter>>]_vars

\* messages:send created its producer next to a registered one, the send
\* rejected, the catch closed the temporary producer and the handler
\* answered the error; the producers Map holds the registered one only
C35_Witness ==
    \E t \in TempIds :
       /\ temps[t].op = "messages:send"
       /\ temps[t].pc = "done"
       /\ temps[t].result = "error"
       /\ producerNative[<<"temp", t>>].closeCalls = 1
       /\ producers = {1}
       /\ producerNative[<<"id", 1>>].closeCalls = 0
       /\ opResp = Reply("messages:send", "error", 0)

\* C36: however cluster:disconnect calls and before-quit meet on one
\* connected cluster, the client's close() is called once for the
\* connection and at most one disconnect call answers success: no two calls
\* of close() are in progress on the same client, and a cluster:disconnect
\* that answers success is the one that removes the connection it closed
\* from connectedClusters.
C36_CloseOncePerConnection ==
    /\ [](\A d, e \in CloseSlots :
             (d # e /\ clientClose[d].pc # "idle" /\ clientClose[e].pc # "idle")
             => clientClose[d].client # clientClose[e].client)
    /\ [][\A d \in CloseSlots :
             (/\ clientClose[d].pc # "idle"
              /\ clientClose'[d].pc = "idle"
              /\ quit.slot # d
              /\ clusterResp' = Envelope("disconnect", "ok"))
             => /\ clientClose[d].cluster \in DOMAIN connectedClusters
                /\ connectedClusters[clientClose[d].cluster].client = clientClose[d].client
                /\ clientClose[d].cluster \notin DOMAIN connectedClusters']_vars

\* C37: close() is called at most once on the native consumer of a
\* streaming consumer, however messages:stopConsumer calls on its id,
\* cluster:disconnect and before-quit interleave.
C37_StreamCloseAtMostOnce ==
    \A n \in Ids : sc[n].pc # "none" => native[n].closeCalls <= 1

\* C38: every id registered in the producers, consumers, readers or
\* streamingConsumers Map stands for a native handle whose close() has not
\* completed, whatever was called before, cluster:disconnect and failed
\* closes included.
C38_RegisteredHandleOpen ==
    /\ \A id \in producers : ~producerNative[<<"id", id>>].closed
    /\ \A id \in consumers : ~native[id].closed
    /\ \A id \in readers : ~readerNative[<<"id", id>>].closed
    /\ \A id \in streamingConsumers : ~native[id].closed

====
